---- MODULE Spec2Model ----
(***************************************************************************)
(* Debt-Reconciliation-Tool: the reconciliation and SKU-mapping engine.    *)
(*                                                                         *)
(*   src/unnamed/part_004  (utils/reconciliationHelpers.ts)                *)
(*       flattenSupplierItems, preprocessItemsWithMappings, findSkuMappings*)
(*   src/App.tsx           handleReconcile, handleClear, the error views,  *)
(*       handleReadFile, the loadSystemData effect                         *)
(*   src/services/geminiService.ts   repairJson, reconcileData             *)
(*   src/hooks/useSystemData.ts      fetchSystemData                       *)
(*   src/unnamed/part_000, src/components/SkuMappingModal.tsx              *)
(*       saveMappings and the modal that calls it                          *)
(*                                                                         *)
(* Numbers are fixed-point integers in units of 10^-5 (100000 is 1.0), so  *)
(* that toFixed(4) is a real rounding.  Names and texts are sequences of   *)
(* one-character strings, so that toLowerCase, trim, indexOf and the       *)
(* regular expressions act on characters.  A JavaScript object reference   *)
(* into a list is modelled by the position in that list (supplierRef,      *)
(* systemRef); 0 stands for "no reference" (null, or a fresh object).      *)
(***************************************************************************)
EXTENDS Integers, Sequences, FiniteSets, TLC

VARIABLES
    extractedData,          \* App.tsx:827   ReconciliationRecord[]
    systemData,             \* useSystemData.ts:7
    existingMappings,       \* part_000:12   ExistingMapping[]
    reconciliationResult,   \* App.tsx:828   ReconciliationResult | null
    reconciliationTime,     \* App.tsx:829
    isReconciling,          \* App.tsx:836   isLoading.reconciling
    error,                  \* App.tsx:838
    rawErrorData,           \* App.tsx:839
    isErrorModalOpen,       \* App.tsx:840
    skuMappingsToShow,      \* App.tsx:834
    isSkuMappingModalOpen,  \* App.tsx:833
    run,                    \* the locals of the handleReconcile call in progress (or last ended)
    classifyCalls,          \* reconcileData requests issued by that call
    rjInput,                \* repairJson: its argument
    rjOutput,               \* repairJson: its return value
    rjParts,                \* how the argument was put together
    rjExtracted,            \* repairJson: `repaired` after step 3 (line 394)
    rjDecode,               \* the outcome of JSON.parse(repairedJson) in reconcileData
    currentMappings,        \* SkuMappingModal.tsx:25   the proposals still pending
    modalError,             \* SkuMappingModal.tsx:28
    saving,                 \* the onSave call in progress: its batch and the creates' outcomes
    saveReturned,           \* what the last saveMappings call returned
    mappingStore,           \* the remote mapping table, in creation order
    strayCreates,           \* creates still in flight after saveMappings returned
    saveCalls,              \* onSave calls so far
    uploadedFiles,          \* App.tsx:825   files chosen and not yet read
    processedFiles,         \* App.tsx:826   files of the batches read so far
    reading,                \* the handleReadFile call in progress: its closure and outcomes
    uploads,                \* handleFileChange calls so far
    selectedSupplierId,     \* useSystemData.ts:86
    systemFilter,           \* App.tsx:831
    isLoadingSystemData,    \* App.tsx:836   isLoading.systemData
    ledgerRequests,         \* fetchSystemData calls in flight
    ledgerFetch,            \* how the fetchSystemData call issued last stands
    selections              \* supplier and filter changes so far

vars == <<extractedData, systemData, existingMappings, reconciliationResult,
          reconciliationTime, isReconciling, error, rawErrorData, isErrorModalOpen,
          skuMappingsToShow, isSkuMappingModalOpen, run, classifyCalls,
          rjInput, rjOutput, rjParts, rjExtracted, rjDecode,
          currentMappings, modalError, saving, saveReturned, mappingStore, strayCreates,
          saveCalls, uploadedFiles, processedFiles, reading, uploads,
          selectedSupplierId, systemFilter, isLoadingSystemData, ledgerRequests, ledgerFetch,
          selections>>

appVars == <<extractedData, systemData, existingMappings, reconciliationResult,
             reconciliationTime, isReconciling, error, rawErrorData, isErrorModalOpen,
             skuMappingsToShow, isSkuMappingModalOpen, run, classifyCalls>>

rjVars == <<rjInput, rjOutput, rjParts, rjExtracted, rjDecode>>

saveVars == <<currentMappings, modalError, saving, saveReturned, mappingStore, strayCreates,
              saveCalls>>

readVars == <<uploadedFiles, processedFiles, reading, uploads>>

ledgerVars == <<selectedSupplierId, systemFilter, isLoadingSystemData, ledgerRequests,
                ledgerFetch, selections>>

ioVars == <<saveVars, readVars, ledgerVars>>

----------------------------------------------------------------------------
(* Bounds of the model.                                                    *)

MaxSupplierRecords == 2
MaxSystemRecords == 2
MaxMappings == 2

----------------------------------------------------------------------------
(* Generic helpers.                                                        *)

SeqsUpTo(S, n) == UNION {[1..k -> S] : k \in 0..n}

RECURSIVE SumSeq(_)
SumSeq(s) == IF s = <<>> THEN 0 ELSE Head(s) + SumSeq(Tail(s))

RECURSIVE FlatMap(_, _)
\* Array.prototype.flatMap: the concatenation of F(s[i]) in order
FlatMap(F(_), s) == IF s = <<>> THEN <<>> ELSE F(Head(s)) \o FlatMap(F, Tail(s))

\* a filter that drops by value: every element equal to one at a dropped position
FilterByValue(s, drop, i) ==
    LET Kept(x) == \A j \in drop : s[j] # x
    IN  SelectSeq(s, Kept)

RECURSIVE FilterByIndex(_, _, _)
\* Array.prototype.filter((_, index) => index \notin drop), positions from i on
FilterByIndex(s, drop, i) ==
    IF i > Len(s) THEN <<>>
    ELSE (IF i \in drop THEN <<>> ELSE <<s[i]>>) \o FilterByIndex(s, drop, i + 1)

\* the number of positions of s holding v
Count(s, v) == Cardinality({i \in DOMAIN s : s[i] = v})

----------------------------------------------------------------------------
(* Data model (src/types.ts).                                              *)

NullItem == [null |-> TRUE]
NoResult == [null |-> TRUE]
NoError == <<>>
\* no text: distinct from every text, whose elements are single characters
NoText == <<"(no text)">>
NoParts == [kind |-> "none"]
NotDecoded == [pending |-> TRUE]

STATUS_MATCHED == "Khop"
STATUS_DISCREPANCY == "Chenh lech"
STATUS_SUPPLIER_ONLY == "Chi co o NCC"
STATUS_PROCESSING == "Dang xu ly"

ProductItem(n, q, p, t) == [name |-> n, quantity |-> q, unitPrice |-> p, totalPrice |-> t]

\* a record whose items are present and non-empty
RecordWithItems(its) ==
    [description |-> <<"d">>, amount |-> SumSeq([i \in DOMAIN its |-> its[i].totalPrice]),
     hasItems |-> TRUE, items |-> its]

\* a record whose items are absent
RecordWithoutItems(d, a) == [description |-> d, amount |-> a, hasItems |-> FALSE, items |-> <<>>]

ExistingMapping(sup, sys) ==
    [crdfd_supplier_product_name |-> sup, crdfd_product_name |-> sys]

----------------------------------------------------------------------------
(* Input universes.  Supplier names A and a differ only by case; B is a    *)
(* third name.  Quantities 1.00000 and 1.00004 differ but share their      *)
(* 4-decimal fingerprint, as do the unit prices 5.00000 and 5.00004;       *)
(* 2.00000 has another fingerprint.  The ledger                            *)
(* never holds an empty name (useSystemData.ts:56 falls back to 'N/A') and *)
(* a mapping's system name is written from a ledger item (part_000:72).    *)

SupplierRecordUniverse ==
    { RecordWithItems(<<ProductItem(<<"A">>, 100000, 500000, 500000)>>),
      RecordWithItems(<<ProductItem(<<"a">>, 100004, 500000, 500020)>>),
      RecordWithItems(<<ProductItem(<<"B">>, 200000, 500000, 1000000)>>),
      RecordWithoutItems(<<"B">>, 500000) }

\* fetchSystemData builds one record per ledger row, with exactly one item;
\* t is quantity * unitPrice
SystemRecord(n, q, p, t) ==
    [description |-> n, amount |-> t, hasItems |-> TRUE, items |-> <<ProductItem(n, q, p, t)>>]

SystemRecordUniverse ==
    { SystemRecord(<<"X">>, 100000, 500000, 500000),
      SystemRecord(<<"X">>, 200000, 500000, 1000000),
      SystemRecord(<<"Y">>, 100000, 500004, 500004) }

MappingUniverse ==
    { ExistingMapping(<<"A">>, <<"X">>), ExistingMapping(<<"a">>, <<"Y">>),
      ExistingMapping(<<"B">>, <<"X">>) }

----------------------------------------------------------------------------
(* utils/reconciliationHelpers.ts                                          *)

LowerChar(c) ==
    CASE c = "A" -> "a" [] c = "B" -> "b" [] c = "X" -> "x" [] c = "Y" -> "y"
      [] OTHER -> c

\* String.prototype.toLowerCase
toLowerCase(s) == [i \in DOMAIN s |-> LowerChar(s[i])]

\* `quantity: 1` of the synthetic line item
SyntheticQuantity == 100000

SyntheticItems(record) ==
    <<ProductItem(record.description, SyntheticQuantity, record.amount, record.amount)>>

\* a flattening with the `items || []` idiom: a record without items gives nothing
FlattenRecordItemsOnly(record) == IF record.hasItems THEN record.items ELSE <<>>

FlattenRecord(record) ==
    IF record.hasItems /\ Len(record.items) > 0 THEN record.items
    ELSE SyntheticItems(record)

flattenSupplierItems(data) == FlatMap(FlattenRecord, data)

\* record.items || []   and   rec.items ?? []
ItemsOrEmpty(record) == IF record.hasItems THEN record.items ELSE <<>>

flattenSystemItems(data) == FlatMap(ItemsOrEmpty, data)

\* new Map(entries): the entries with this key, by position
MappingEntries(mappings, key) ==
    {i \in DOMAIN mappings : toLowerCase(mappings[i].crdfd_supplier_product_name) = key}

\* a Map in which the first entry of a key stays
MappingFirst(entries) == CHOOSE i \in entries : \A j \in entries : i <= j

\* the position whose value the Map holds for the key: a later entry overwrites
MappingWinner(entries) == CHOOSE i \in entries : \A j \in entries : j <= i

\* a lookup whose keys were not lower-cased when the Map was built
mappingMapGetCaseSensitive(mappings, key) ==
    LET entries == {i \in DOMAIN mappings : mappings[i].crdfd_supplier_product_name = key}
    IN  IF entries = {} THEN <<>>
        ELSE mappings[MappingWinner(entries)].crdfd_product_name

\* mappingMap.get(key); <<>> stands for undefined and for the empty string,
\* which `if (systemProductName)` treats alike
mappingMapGet(mappings, key) ==
    LET entries == MappingEntries(mappings, key)
    IN  IF entries = {} THEN <<>>
        ELSE mappings[MappingWinner(entries)].crdfd_product_name

\* the candidates findIndex accepts
FindCandidates(allSystemItems, systemProductName, used) ==
    {j \in DOMAIN allSystemItems :
        allSystemItems[j].name = systemProductName /\ j \notin used}

\* a search that returns the last candidate
PickLastIndex(candidates) == CHOOSE j \in candidates : \A k \in candidates : k <= j

\* which of the candidates findIndex returns: the first
PickIndex(candidates) == CHOOSE j \in candidates : \A k \in candidates : j <= k

\* allSystemItems.findIndex(...); 0 stands for -1
findIndex(allSystemItems, systemProductName, used) ==
    LET candidates == FindCandidates(allSystemItems, systemProductName, used)
    IN  IF candidates = {} THEN 0 ELSE PickIndex(candidates)

DETAIL_ABSENT == <<"San pham da duoc mapping nhung khong co trong du lieu Wecare ky nay.">>

DiscrepancyDetails(supplierItem, systemItem) ==
    <<"Chenh lech SL/DG. NCC/Wecare", supplierItem.quantity, supplierItem.unitPrice,
      systemItem.quantity, systemItem.unitPrice>>

ComparedItem(st, sup, sys, det, ref) ==
    [status |-> st, supplierItem |-> sup, systemItem |-> sys, details |-> det,
     systemRef |-> ref]

\* a comparison that looks at the quantity only
isMatchedByQuantity(supplierItem, systemItem) == supplierItem.quantity = systemItem.quantity

isMatched(supplierItem, systemItem) ==
    supplierItem.quantity = systemItem.quantity /\ supplierItem.unitPrice = systemItem.unitPrice

\* a pairing that is not recorded
MarkUsedForgets(used, systemItemIndex) == used

\* usedSystemItemIndices after a pairing with systemItemIndex
MarkUsed(used, systemItemIndex) == used \cup {systemItemIndex}

\* the body of allSupplierItems.forEach, acc = [rows, residual, used]
PreprocessStep(acc, supplierItem, allSystemItems, mappings) ==
    LET systemProductName == mappingMapGet(mappings, toLowerCase(supplierItem.name))
    IN  IF systemProductName # <<>>
        THEN LET systemItemIndex == findIndex(allSystemItems, systemProductName, acc.used)
             IN  IF systemItemIndex # 0
                 THEN LET systemItem == allSystemItems[systemItemIndex]
                          matched == isMatched(supplierItem, systemItem)
                      IN  [acc EXCEPT
                             !.used = MarkUsed(@, systemItemIndex),
                             !.rows = Append(@, ComparedItem(
                                 IF matched THEN STATUS_MATCHED ELSE STATUS_DISCREPANCY,
                                 supplierItem, systemItem,
                                 IF matched THEN <<>>
                                 ELSE DiscrepancyDetails(supplierItem, systemItem),
                                 systemItemIndex))]
                 ELSE [acc EXCEPT
                         !.rows = Append(@, ComparedItem(STATUS_SUPPLIER_ONLY, supplierItem,
                                                         NullItem, DETAIL_ABSENT, 0))]
        ELSE [acc EXCEPT !.residual = Append(@, supplierItem)]

RECURSIVE PreprocessLoop(_, _, _, _, _)
PreprocessLoop(acc, i, allSupplierItems, allSystemItems, mappings) ==
    IF i > Len(allSupplierItems) THEN acc
    ELSE PreprocessLoop(PreprocessStep(acc, allSupplierItems[i], allSystemItems, mappings),
                        i + 1, allSupplierItems, allSystemItems, mappings)

preprocessItemsWithMappings(allSupplierItems, allSystemItems, mappings) ==
    LET acc == PreprocessLoop([rows |-> <<>>, residual |-> <<>>, used |-> {}], 1,
                              allSupplierItems, allSystemItems, mappings)
    IN  [preProcessedItems |-> acc.rows,
         itemsForAI_Supplier |-> acc.residual,
         itemsForAI_System |-> FilterByIndex(allSystemItems, acc.used, 1),
         usedSystemItemIndices |-> acc.used]

\* a rounding that cuts the digits after the fourth
toFixed4Truncating(x) == x \div 10

\* the rounding of Number.prototype.toFixed(4) on a non-negative value, in
\* units of 10^-4: the nearest multiple, the larger one on a tie
toFixed4(x) == (x + 5) \div 10

DigitChars == <<"0", "1", "2", "3", "4", "5", "6", "7", "8", "9">>

DigitChar(d) == DigitChars[d + 1]

RECURSIVE DigitsOf(_)
\* the decimal digits of a natural number, without leading zeros
DigitsOf(n) == IF n < 10 THEN <<DigitChar(n)>> ELSE DigitsOf(n \div 10) \o <<DigitChar(n % 10)>>

\* the text toFixed(4) returns: a minus sign for a value below zero, the
\* integer digits, a point and exactly four fraction digits
toFixedText(x) ==
    LET n == toFixed4(IF x < 0 THEN -x ELSE x)
        f == n % 10000
        unsigned == DigitsOf(n \div 10000)
                       \o <<".", DigitChar(f \div 1000), DigitChar((f \div 100) % 10),
                            DigitChar((f \div 10) % 10), DigitChar(f % 10)>>
    IN  IF x < 0 THEN <<"-">> \o unsigned ELSE unsigned

\* `${quantity.toFixed(4)}-${unitPrice.toFixed(4)}`
FingerprintKey(item) == toFixedText(item.quantity) \o <<"-">> \o toFixedText(item.unitPrice)

RECURSIVE systemItemsMap(_)
\* the Map built from the ledger items, kept as the key of every position
systemItemsMap(systemItems) ==
    IF systemItems = <<>> THEN <<>>
    ELSE <<FingerprintKey(Head(systemItems))>> \o systemItemsMap(Tail(systemItems))

\* systemItemsMap.get(key): the positions of the ledger items with this key, in order
PotentialMatches(itemKeys, key) == {j \in DOMAIN itemKeys : itemKeys[j] = key}

\* a search that returns the last unconsumed candidate
FindLastMatch(potentialMatches, matchedSystemItems) ==
    LET free == potentialMatches \ matchedSystemItems
    IN  IF free = {} THEN 0 ELSE CHOOSE j \in free : \A k \in free : k <= j

\* potentialMatches.find(sysItem => !matchedSystemItems.has(sysItem)); 0 for undefined
FindMatch(potentialMatches, matchedSystemItems) ==
    LET free == potentialMatches \ matchedSystemItems
    IN  IF free = {} THEN 0 ELSE CHOOSE j \in free : \A k \in free : j <= k

\* a pairing that does not record the consumed ledger item
AddMatchedForgets(matchedSystemItems, match) == matchedSystemItems

\* matchedSystemItems after a pairing with match
AddMatched(matchedSystemItems, match) == matchedSystemItems \cup {match}

SkuMapping(supItem, sysItem, supRef, sysRef) ==
    [supplierItem |-> supItem, systemItem |-> sysItem,
     supplierRef |-> supRef, systemRef |-> sysRef]

\* the body of `for (const supItem of supplierItems)`, acc = [mappings, matched]
DiscoverStep(acc, i, supplierItems, systemItems, itemKeys) ==
    LET supItem == supplierItems[i]
        match == FindMatch(PotentialMatches(itemKeys, FingerprintKey(supItem)), acc.matched)
    IN  IF match # 0
        THEN [mappings |-> Append(acc.mappings, SkuMapping(supItem, systemItems[match], i, match)),
              matched |-> AddMatched(acc.matched, match)]
        ELSE acc

RECURSIVE DiscoverLoop(_, _, _, _, _)
DiscoverLoop(acc, i, supplierItems, systemItems, itemKeys) ==
    IF i > Len(supplierItems) THEN acc
    ELSE DiscoverLoop(DiscoverStep(acc, i, supplierItems, systemItems, itemKeys), i + 1,
                      supplierItems, systemItems, itemKeys)

\* the greedy pairs, before the stored-mapping filter
GreedyMappings(supplierItems, systemItems) ==
    DiscoverLoop([mappings |-> <<>>, matched |-> {}], 1, supplierItems, systemItems,
                 systemItemsMap(systemItems)).mappings

\* a test that compares the supplier names ignoring case
AlreadyStoredIgnoringCase(mappings, potentialMapping) ==
    \E i \in DOMAIN mappings :
        /\ mappings[i].crdfd_product_name = potentialMapping.systemItem.name
        /\ toLowerCase(mappings[i].crdfd_supplier_product_name)
              = toLowerCase(potentialMapping.supplierItem.name)

\* existingMappings.some(...)
AlreadyStored(mappings, potentialMapping) ==
    \E i \in DOMAIN mappings :
        /\ mappings[i].crdfd_product_name = potentialMapping.systemItem.name
        /\ mappings[i].crdfd_supplier_product_name = potentialMapping.supplierItem.name

findSkuMappings(extracted, system, mappings) ==
    LET IsNew(m) == ~AlreadyStored(mappings, m)
    IN  SelectSeq(GreedyMappings(flattenSupplierItems(extracted), flattenSystemItems(system)),
                  IsNew)

----------------------------------------------------------------------------
(* State shared by the specifications.                                     *)

NoRun ==
    [phase |-> "none", allSupplierItems |-> <<>>, allSystemItems |-> <<>>,
     preProcessedItems |-> <<>>, itemsForAI_Supplier |-> <<>>, itemsForAI_System |-> <<>>,
     usedSystemItemIndices |-> {}, totalSupplierAmount |-> 0, aiResult |-> NoResult]

\* the App state after construction, before any data is loaded
AppDefaults ==
    /\ reconciliationResult = NoResult
    /\ reconciliationTime = FALSE
    /\ isReconciling = FALSE
    /\ error = NoError
    /\ rawErrorData = NoError
    /\ isErrorModalOpen = FALSE
    /\ skuMappingsToShow = <<>>
    /\ isSkuMappingModalOpen = FALSE
    /\ run = NoRun
    /\ classifyCalls = 0

\* no response text has been received
RepairIdle ==
    /\ rjInput = <<>>
    /\ rjOutput = NoText
    /\ rjParts = NoParts
    /\ rjExtracted = NoText
    /\ rjDecode = NotDecoded

NoSave == [phase |-> "idle"]
NoModalError == [none |-> TRUE]
NotReturned == [pending |-> TRUE]

\* the mapping modal is closed and nothing was saved in this session
SaveIdle ==
    /\ currentMappings = <<>>
    /\ modalError = NoModalError
    /\ saving = NoSave
    /\ saveReturned = NotReturned
    /\ mappingStore = existingMappings
    /\ strayCreates = <<>>
    /\ saveCalls = 0

NotReading == [phase |-> "idle"]
NoSupplier == ""
NoWindow == [start |-> 0, end |-> 0]
SUPPLIER_1 == "S1"
SUPPLIER_2 == "S2"
LOADED_FILE == "statement"

\* {start, end} of the system filter; days are counted from some day 1, and
\* null is 0
Window(start, end) == [start |-> start, end |-> end]

\* the window the App computed for the documents at hand
LOADED_WINDOW == Window(10, 30)

\* no batch is being read; the documents at hand, if any, came from one file
ReadIdle ==
    /\ uploadedFiles = <<>>
    /\ processedFiles = (IF Len(extractedData) = 0 THEN <<>> ELSE <<LOADED_FILE>>)
    /\ reading = NotReading
    /\ uploads = 0

\* a supplier is selected and the ledger of the window was fetched
LedgerIdle ==
    /\ selectedSupplierId = SUPPLIER_1
    /\ systemFilter = LOADED_WINDOW
    /\ isLoadingSystemData = FALSE
    /\ ledgerRequests = <<>>
    /\ ledgerFetch = "ok"
    /\ selections = 0

IoIdle == SaveIdle /\ ReadIdle /\ LedgerIdle

----------------------------------------------------------------------------
(* SpecMatch: the two matchers applied to every bounded input.             *)

InitMatch ==
    /\ extractedData \in SeqsUpTo(SupplierRecordUniverse, MaxSupplierRecords)
    /\ systemData \in SeqsUpTo(SystemRecordUniverse, MaxSystemRecords)
    /\ existingMappings \in SeqsUpTo(MappingUniverse, MaxMappings)
    /\ AppDefaults
    /\ RepairIdle
    /\ IoIdle

\* handleReconcile, lines 991-998: flatten both sides and run the preprocessor
ApplyPreprocess ==
    /\ run.phase = "none"
    /\ LET allSupplierItems == flattenSupplierItems(extractedData)
           allSystemItems == flattenSystemItems(systemData)
           pre == preprocessItemsWithMappings(allSupplierItems, allSystemItems, existingMappings)
       IN  run' = [run EXCEPT !.phase = "preprocessed",
                              !.allSupplierItems = allSupplierItems,
                              !.allSystemItems = allSystemItems,
                              !.preProcessedItems = pre.preProcessedItems,
                              !.itemsForAI_Supplier = pre.itemsForAI_Supplier,
                              !.itemsForAI_System = pre.itemsForAI_System,
                              !.usedSystemItemIndices = pre.usedSystemItemIndices]
    /\ UNCHANGED <<extractedData, systemData, existingMappings, reconciliationResult,
                   reconciliationTime, isReconciling, error, rawErrorData, isErrorModalOpen,
                   skuMappingsToShow, isSkuMappingModalOpen, classifyCalls, rjVars, ioVars>>

\* handleOpenSkuMappingModal: the discoverer, shown when it proposes something;
\* the modal's effect (SkuMappingModal.tsx:30-36) takes the proposals as its
\* pending list and clears its error
HandleOpenSkuMappingModal ==
    /\ ~isSkuMappingModalOpen
    /\ ~isReconciling
    /\ Len(extractedData) # 0 /\ Len(systemData) # 0
    /\ LET newMappings == findSkuMappings(extractedData, systemData, existingMappings)
       IN  /\ Len(newMappings) # 0
           /\ skuMappingsToShow' = newMappings
           /\ isSkuMappingModalOpen' = TRUE
           /\ currentMappings' = newMappings
    /\ modalError' = NoModalError
    /\ UNCHANGED <<extractedData, systemData, existingMappings, reconciliationResult,
                   reconciliationTime, isReconciling, error, rawErrorData, isErrorModalOpen,
                   run, classifyCalls, rjVars, saving, saveReturned, mappingStore,
                   strayCreates, saveCalls, readVars, ledgerVars>>

NextMatch ==
    \/ ApplyPreprocess
    \/ HandleOpenSkuMappingModal

SpecMatch == InitMatch /\ [][NextMatch]_vars

----------------------------------------------------------------------------
(* SpecSave: the mapping modal saves proposals to the remote table, the    *)
(* stored mappings are reloaded, and the preprocessor runs on the same     *)
(* data.  One create request is in flight per proposal of a batch; a       *)
(* request ends with a response (ok or an error status) or is rejected     *)
(* (no response: the transport failed).                                    *)

MaxSaveCalls == 2

SaveSupplierRecordUniverse ==
    { RecordWithItems(<<ProductItem(<<"A">>, 100000, 500000, 500000)>>),
      RecordWithItems(<<ProductItem(<<"B">>, 200000, 500000, 1000000)>>) }

SaveSystemRecordUniverse ==
    { SystemRecord(<<"X">>, 100000, 500000, 500000),
      SystemRecord(<<"X">>, 200000, 500000, 1000000) }

\* the table as loaded for the supplier: empty, or holding one mapping
SaveStoredUniverse == {<<>>, <<ExistingMapping(<<"B">>, <<"Y">>)>>}

InitSave ==
    /\ extractedData \in SeqsUpTo(SaveSupplierRecordUniverse, MaxSupplierRecords)
    /\ systemData \in SeqsUpTo(SaveSystemRecordUniverse, MaxSystemRecords)
    /\ existingMappings \in SaveStoredUniverse
    /\ AppDefaults
    /\ RepairIdle
    /\ IoIdle

SERVER_ERROR_MESSAGE == "Bad Request"
FAILED_TO_FETCH == "Failed to fetch"

\* the body of a create request (part_000:70-74)
createPayload(mapping) == ExistingMapping(mapping.supplierItem.name, mapping.systemItem.name)

\* the result when some responses are not ok (part_000:91-94): the message
\* counts the failed requests and joins the texts of their responses
SomeCreatesFailed(failedRequests, total) ==
    [success |-> FALSE,
     error |-> [failed |-> failedRequests, total |-> total,
                messages |-> [k \in 1..failedRequests |-> SERVER_ERROR_MESSAGE]]]

\* the result of the catch block (part_000:98-100): the message of the rejection
SaveThrew == [success |-> FALSE, error |-> [message |-> FAILED_TO_FETCH]]

SaveSucceeded == [success |-> TRUE]

isSaving == saving.phase # "idle"

\* onSave(batch) up to `await Promise.all(promises)`: the modal clears its
\* error and saveMappings issues one create per mapping of the batch
StartSave(kind, index, batch) ==
    /\ isSkuMappingModalOpen
    /\ ~isSaving
    /\ saveCalls < MaxSaveCalls
    /\ saving' = [phase |-> "creating", kind |-> kind, index |-> index, batch |-> batch,
                  outcomes |-> [i \in DOMAIN batch |-> "pending"]]
    /\ modalError' = NoModalError
    /\ saveCalls' = saveCalls + 1
    /\ UNCHANGED <<appVars, rjVars, readVars, ledgerVars, currentMappings, saveReturned,
                   mappingStore, strayCreates>>

\* handleSaveAll, lines 54-59
HandleSaveAll ==
    /\ Len(currentMappings) # 0
    /\ StartSave("all", 0, currentMappings)

\* handleSaveOne, lines 42-45
HandleSaveOne ==
    \E index \in DOMAIN currentMappings :
        StartSave("one", index, <<currentMappings[index]>>)

\* what the modal does with the result of onSave (SkuMappingModal.tsx:46-51
\* and 60-69): a success empties the list (save all) or drops the saved row
\* (save one); a failure shows the error and leaves the list as it is
ModalTakesResult(result) ==
    /\ IF result.success
       THEN /\ currentMappings' =
                   IF saving.kind = "all" THEN <<>>
                   ELSE FilterByIndex(currentMappings, {saving.index}, 1)
            /\ UNCHANGED modalError
       ELSE /\ modalError' = result.error
            /\ UNCHANGED currentMappings
    /\ saving' = NoSave

\* the table after a create request ended this way
StoreAfter(store, mapping, outcome) ==
    IF outcome = "ok" THEN Append(store, createPayload(mapping)) ELSE store

\* a create request gets its response.  When it is the last one of the batch,
\* Promise.all resolves and saveMappings goes on (part_000:88-97): with a
\* response that is not ok it returns the failure, which handleSaveMappings
\* hands to the modal; else handleSaveMappings starts the reload
CreateResponds ==
    /\ saving.phase = "creating"
    /\ \E i \in DOMAIN saving.batch : \E outcome \in {"ok", "error"} :
          /\ saving.outcomes[i] = "pending"
          /\ mappingStore' = StoreAfter(mappingStore, saving.batch[i], outcome)
          /\ LET outcomes == [saving.outcomes EXCEPT ![i] = outcome]
                 failedRequests == Cardinality({j \in DOMAIN outcomes : outcomes[j] = "error"})
             IN  IF \E j \in DOMAIN outcomes : outcomes[j] = "pending"
                 THEN /\ saving' = [saving EXCEPT !.outcomes = outcomes]
                      /\ UNCHANGED <<saveReturned, currentMappings, modalError>>
                 ELSE IF failedRequests > 0
                 THEN /\ saveReturned' = SomeCreatesFailed(failedRequests, Len(saving.batch))
                      /\ ModalTakesResult(saveReturned')
                 ELSE /\ saveReturned' = SaveSucceeded
                      /\ saving' = [saving EXCEPT !.outcomes = outcomes, !.phase = "reloading"]
                      /\ UNCHANGED <<currentMappings, modalError>>
    /\ UNCHANGED <<appVars, rjVars, readVars, ledgerVars, strayCreates, saveCalls>>

\* a create request is rejected: Promise.all rejects at once, the catch block
\* returns, and the requests still pending go on without anyone awaiting them
CreateRejects ==
    /\ saving.phase = "creating"
    /\ \E i \in DOMAIN saving.batch :
          /\ saving.outcomes[i] = "pending"
          /\ strayCreates' = strayCreates
                \o FilterByIndex(saving.batch,
                                 {j \in DOMAIN saving.batch :
                                     j = i \/ saving.outcomes[j] # "pending"}, 1)
    /\ saveReturned' = SaveThrew
    /\ ModalTakesResult(saveReturned')
    /\ UNCHANGED <<appVars, rjVars, readVars, ledgerVars, mappingStore, saveCalls>>

\* a create nobody awaits any more ends
StrayCreateEnds ==
    \E k \in DOMAIN strayCreates : \E outcome \in {"ok", "error", "rejected"} :
        /\ mappingStore' = StoreAfter(mappingStore, strayCreates[k], outcome)
        /\ strayCreates' = FilterByIndex(strayCreates, {k}, 1)
        /\ UNCHANGED <<appVars, rjVars, readVars, ledgerVars, currentMappings, modalError,
                       saving, saveReturned,
                       saveCalls>>

\* fetchExistingMappings after a successful save (App.tsx:1082-1085): the
\* stored mappings become what the table holds, or none when the query fails
\* (part_000:38-49); then the modal gets the result of the save
ReloadEnds(loaded) ==
    /\ saving.phase = "reloading"
    /\ existingMappings' = loaded
    /\ ModalTakesResult(saveReturned)
    /\ UNCHANGED <<extractedData, systemData, reconciliationResult, reconciliationTime,
                   isReconciling, error, rawErrorData, isErrorModalOpen, skuMappingsToShow,
                   isSkuMappingModalOpen, run, classifyCalls, rjVars, readVars, ledgerVars,
                   saveReturned,
                   mappingStore, strayCreates, saveCalls>>

ReloadResponds == ReloadEnds(mappingStore)

ReloadFails == ReloadEnds(<<>>)

\* onClose: the buttons are disabled while a save is in progress (lines 79, 135)
CloseSkuMappingModal ==
    /\ isSkuMappingModalOpen
    /\ ~isSaving
    /\ isSkuMappingModalOpen' = FALSE
    /\ UNCHANGED <<extractedData, systemData, existingMappings, reconciliationResult,
                   reconciliationTime, isReconciling, error, rawErrorData, isErrorModalOpen,
                   skuMappingsToShow, run, classifyCalls, rjVars, ioVars>>

NextSave ==
    \/ HandleOpenSkuMappingModal
    \/ HandleSaveAll
    \/ HandleSaveOne
    \/ CreateResponds
    \/ CreateRejects
    \/ StrayCreateEnds
    \/ ReloadResponds
    \/ ReloadFails
    \/ CloseSkuMappingModal
    \/ ApplyPreprocess

SpecSave == InitSave /\ [][NextSave]_vars

----------------------------------------------------------------------------
(* SpecFlatten: the same two handlers over documents of every shape the    *)
(* extraction can return: several line items, one line item, an empty      *)
(* items list and no items field.  The quantity 0.99996 rounds up to the   *)
(* fingerprint of 1.00000; the quantity -1.00000 is a returned line.       *)

\* a record whose items field is present and empty
RecordWithEmptyItems(d, a) == [description |-> d, amount |-> a, hasItems |-> TRUE, items |-> <<>>]

FlattenRecordUniverse ==
    { RecordWithItems(<<ProductItem(<<"A">>, 100000, 500000, 500000),
                        ProductItem(<<"B">>, 200000, 500000, 1000000)>>),
      RecordWithItems(<<ProductItem(<<"a">>, 99996, 500000, 499980)>>),
      RecordWithItems(<<ProductItem(<<"B">>, -100000, 500000, -500000)>>),
      RecordWithEmptyItems(<<"B">>, 500000),
      RecordWithoutItems(<<"A">>, 1000000) }

FlattenMappingUniverse == {<<>>, <<ExistingMapping(<<"A">>, <<"X">>)>>}

InitFlatten ==
    /\ extractedData \in SeqsUpTo(FlattenRecordUniverse, MaxSupplierRecords)
    /\ systemData \in SeqsUpTo(SystemRecordUniverse, MaxSystemRecords)
    /\ existingMappings \in FlattenMappingUniverse
    /\ AppDefaults
    /\ RepairIdle
    /\ IoIdle

SpecFlatten == InitFlatten /\ [][NextMatch]_vars

----------------------------------------------------------------------------
(* Spec: one reconciliation run of the App (handleReconcile), the two      *)
(* ways to clear it and the error views.                                   *)

MaxAiRows == 2

FlowSupplierRecordUniverse ==
    { RecordWithItems(<<ProductItem(<<"A">>, 100000, 500000, 500000)>>),
      RecordWithoutItems(<<"B">>, 500000) }

FlowSystemRecordUniverse == { SystemRecord(<<"X">>, 100000, 500000, 500000) }

FlowMappingUniverse == { ExistingMapping(<<"A">>, <<"X">>) }

\* what the classifier may answer with: rows about either supplier item, with
\* or without a ledger item; nothing obliges it to cover its input
AiRowUniverse ==
    UNION { { ComparedItem(STATUS_MATCHED, r, ProductItem(<<"X">>, 100000, 500000, 500000),
                           <<>>, 0),
              ComparedItem(STATUS_SUPPLIER_ONLY, r, NullItem, <<"ai">>, 0) }
            : r \in { ProductItem(<<"A">>, 100000, 500000, 500000),
                      ProductItem(<<"B">>, 100000, 500000, 500000) } }

\* the totals the payload carries: honest zeros, or numbers that do not add up
AiTotalsUniverse ==
    { [totalSupplierAmount |-> 0, totalSystemAmount |-> 0, difference |-> 0],
      [totalSupplierAmount |-> 700000, totalSystemAmount |-> 300000, difference |-> 900000] }

ReconciliationResult(sum, sup, sys, diff, rows) ==
    [summary |-> sum, totalSupplierAmount |-> sup, totalSystemAmount |-> sys,
     difference |-> diff, comparedItems |-> rows]

AiPayloads ==
    { ReconciliationResult(<<"ai summary">>, t.totalSupplierAmount, t.totalSystemAmount,
                           t.difference, rows)
      : t \in AiTotalsUniverse, rows \in SeqsUpTo(AiRowUniverse, MaxAiRows) }

\* payloads that decode but lack a required field: the summary, or comparedItems
PayloadsWithoutSummary ==
    { [totalSupplierAmount |-> p.totalSupplierAmount, totalSystemAmount |-> p.totalSystemAmount,
       difference |-> p.difference, comparedItems |-> p.comparedItems] : p \in AiPayloads }

PayloadsWithoutRows ==
    { [summary |-> <<"ai summary">>, totalSupplierAmount |-> t.totalSupplierAmount,
       totalSystemAmount |-> t.totalSystemAmount, difference |-> t.difference]
      : t \in AiTotalsUniverse }

IncompletePayloads == PayloadsWithoutSummary \cup PayloadsWithoutRows

\* response texts that repairJson cannot turn into something JSON.parse accepts:
\* a truncated object and plain prose
UndecodableTexts == { <<"{">>, <<"o", "k">> }

PARSE_ERROR_MESSAGE == <<"AI da tra ve mot dinh dang khong hop le va khong the tu dong sua chua.">>
API_ERROR_MESSAGE == <<"api error">>
SUMMARY_INTERIM == <<"Dang xu ly... Ket qua so bo tu mapping da luu. Cho AI hoan tat...">>
SUMMARY_NOTHING == <<"Khong co du lieu can AI xu ly.">>
DETAIL_PROCESSING == <<"Dang cho AI phan tich...">>

Init ==
    /\ extractedData \in SeqsUpTo(FlowSupplierRecordUniverse, MaxSupplierRecords)
    /\ systemData \in SeqsUpTo(FlowSystemRecordUniverse, MaxSystemRecords)
    /\ existingMappings \in SeqsUpTo(FlowMappingUniverse, MaxMappings)
    /\ AppDefaults
    /\ RepairIdle
    /\ IoIdle

\* item.systemItem?.totalPrice || 0
SystemPriceOrZero(row) == IF row.systemItem = NullItem THEN 0 ELSE row.systemItem.totalPrice

\* reduce((sum, item) => sum + (item.systemItem?.totalPrice || 0), 0)
SystemAmount(rows) == SumSeq([i \in DOMAIN rows |-> SystemPriceOrZero(rows[i])])

\* reduce((sum, item) => sum + item.totalPrice, 0)
SupplierAmount(items) == SumSeq([i \in DOMAIN items |-> items[i].totalPrice])

aiProcessingPlaceholders(itemsForAI_Supplier) ==
    [i \in DOMAIN itemsForAI_Supplier |->
        ComparedItem(STATUS_PROCESSING, itemsForAI_Supplier[i], NullItem, DETAIL_PROCESSING, 0)]

\* interim rows without the deterministic ones
initialComparedItemsPlaceholdersOnly(preProcessedItems, itemsForAI_Supplier) ==
    aiProcessingPlaceholders(itemsForAI_Supplier)

\* the rows of the interim result
initialComparedItems(preProcessedItems, itemsForAI_Supplier) ==
    preProcessedItems \o aiProcessingPlaceholders(itemsForAI_Supplier)

\* the interim result, lines 1013-1019
InterimResult(preProcessedItems, itemsForAI_Supplier, totalSupplierAmount) ==
    ReconciliationResult(SUMMARY_INTERIM, totalSupplierAmount, SystemAmount(preProcessedItems),
                         totalSupplierAmount - SystemAmount(preProcessedItems),
                         initialComparedItems(preProcessedItems, itemsForAI_Supplier))

\* the sub-result used when nothing is delegated, lines 1022-1028
EmptyAiResult == ReconciliationResult(SUMMARY_NOTHING, 0, 0, 0, <<>>)

\* the difference of a merge that trusts the delegate's figure
TrustedDifference(totalSupplierAmount, finalSystemAmount, aiResult) ==
    totalSupplierAmount - finalSystemAmount + aiResult.difference

\* totalSupplierAmount - finalSystemAmount, line 1046
finalDifference(totalSupplierAmount, finalSystemAmount, aiResult) ==
    totalSupplierAmount - finalSystemAmount

\* the template of lines 1038-1040: the note about the preprocessed rows, when
\* there are any, then aiResult.summary; a template prints undefined as a word
finalSummary(preProcessedItems, aiResult) ==
    (IF Len(preProcessedItems) > 0
     THEN <<"Da tu dong xu ly N san pham dua tren mapping da luu.", Len(preProcessedItems)>>
     ELSE <<>>)
    \o (IF "summary" \in DOMAIN aiResult THEN aiResult.summary ELSE <<"undefined">>)

\* a merge that puts the delegate's rows first
FinalResultDelegateFirst(preProcessedItems, totalSupplierAmount, aiResult) ==
    LET finalComparedItems == aiResult.comparedItems \o preProcessedItems
        finalSystemAmount == SystemAmount(finalComparedItems)
    IN  ReconciliationResult(finalSummary(preProcessedItems, aiResult), totalSupplierAmount,
                             finalSystemAmount,
                             finalDifference(totalSupplierAmount, finalSystemAmount, aiResult),
                             finalComparedItems)

\* the merge, lines 1037-1049
FinalResult(preProcessedItems, totalSupplierAmount, aiResult) ==
    LET finalComparedItems == preProcessedItems \o aiResult.comparedItems
        finalSystemAmount == SystemAmount(finalComparedItems)
    IN  ReconciliationResult(finalSummary(preProcessedItems, aiResult), totalSupplierAmount,
                             finalSystemAmount,
                             finalDifference(totalSupplierAmount, finalSystemAmount, aiResult),
                             finalComparedItems)

\* the component tree is mounted.  An error thrown while React renders, with
\* no error boundary above, unmounts it: nothing is displayed any more
Mounted == run.phase # "crashed"

\* a run that delegates whatever the residual is
AlwaysDelegates(itemsForAI_Supplier, itemsForAI_System) == TRUE

\* itemsForAI_Supplier.length > 0 || itemsForAI_System.length > 0, line 1030
NeedsClassifier(itemsForAI_Supplier, itemsForAI_System) ==
    Len(itemsForAI_Supplier) > 0 \/ Len(itemsForAI_System) > 0

\* handleReconcile from the click to the await of reconcileData, or to its end
\* when nothing is delegated (then no await is reached and the handler runs
\* through the merge and the finally block in one go)
HandleReconcile ==
    /\ Mounted
    /\ reconciliationResult = NoResult      \* the button is rendered (line 1104)
    /\ ~isReconciling                       \* and enabled (line 1172)
    /\ Len(extractedData) # 0               \* line 983
    /\ LET allSupplierItems == flattenSupplierItems(extractedData)
           allSystemItems == flattenSystemItems(systemData)
           pre == preprocessItemsWithMappings(allSupplierItems, allSystemItems, existingMappings)
           totalSupplierAmount == SupplierAmount(allSupplierItems)
           started == [phase |-> "awaiting",
                       allSupplierItems |-> allSupplierItems,
                       allSystemItems |-> allSystemItems,
                       preProcessedItems |-> pre.preProcessedItems,
                       itemsForAI_Supplier |-> pre.itemsForAI_Supplier,
                       itemsForAI_System |-> pre.itemsForAI_System,
                       usedSystemItemIndices |-> pre.usedSystemItemIndices,
                       totalSupplierAmount |-> totalSupplierAmount,
                       aiResult |-> EmptyAiResult]
       IN  IF NeedsClassifier(pre.itemsForAI_Supplier, pre.itemsForAI_System)
           THEN /\ run' = started
                /\ classifyCalls' = 1
                /\ isReconciling' = TRUE
                /\ reconciliationTime' = FALSE
                /\ reconciliationResult' =
                       InterimResult(pre.preProcessedItems, pre.itemsForAI_Supplier,
                                     totalSupplierAmount)
           ELSE /\ run' = [started EXCEPT !.phase = "done"]
                /\ classifyCalls' = 0
                /\ isReconciling' = FALSE
                /\ reconciliationTime' = TRUE
                /\ reconciliationResult' =
                       FinalResult(pre.preProcessedItems, totalSupplierAmount, EmptyAiResult)
    /\ error' = NoError
    /\ rawErrorData' = NoError
    /\ UNCHANGED <<extractedData, systemData, existingMappings, isErrorModalOpen,
                   skuMappingsToShow, isSkuMappingModalOpen, rjVars, ioVars>>

\* reconcileData resolves with aiResult: the merge and the finally block.  The
\* merge is an updater that React runs, not the handler: when it spreads a
\* comparedItems that is undefined it throws in React's render, out of reach of
\* the handler's catch, and the result is never set
ReconcileResolves(aiResult) ==
    /\ run.phase = "awaiting"
    /\ IF "comparedItems" \notin DOMAIN aiResult
       THEN /\ run' = [run EXCEPT !.phase = "crashed", !.aiResult = aiResult]
            /\ UNCHANGED reconciliationResult
       ELSE /\ run' = [run EXCEPT !.phase = "done", !.aiResult = aiResult]
            /\ reconciliationResult' =
                   FinalResult(run.preProcessedItems, run.totalSupplierAmount, aiResult)
    /\ reconciliationTime' = TRUE
    /\ isReconciling' = FALSE
    /\ UNCHANGED <<extractedData, systemData, existingMappings, error, rawErrorData,
                   isErrorModalOpen, skuMappingsToShow, isSkuMappingModalOpen,
                   classifyCalls, rjVars, ioVars>>

\* the response decoded to a payload with every required field
ClassifierResponds == \E aiResult \in AiPayloads : ReconcileResolves(aiResult)

\* the response decoded, to a payload that lacks a required field: JSON.parse
\* and the cast of geminiService.ts:541 do not look at the fields
ClassifierRespondsIncomplete == \E aiResult \in IncompletePayloads : ReconcileResolves(aiResult)

\* reconcileData rejects: the catch block (lines 1051-1055) and finally;
\* raw is err.rawResponse of a GeminiParseError, NoError for any other error
ReconcileThrows(phase, message, raw, resultAfter) ==
    /\ run.phase = "awaiting"
    /\ run' = [run EXCEPT !.phase = phase]
    /\ error' = message
    /\ rawErrorData' = IF raw # NoError THEN raw ELSE rawErrorData
    /\ reconciliationResult' = resultAfter
    /\ reconciliationTime' = TRUE
    /\ isReconciling' = FALSE
    /\ UNCHANGED <<extractedData, systemData, existingMappings, isErrorModalOpen,
                   skuMappingsToShow, isSkuMappingModalOpen, classifyCalls, rjVars, ioVars>>

\* a catch block that also drops the published result
ClassifierRespondsUndecodableErasing ==
    \E raw \in UndecodableTexts :
        ReconcileThrows("undecodable", PARSE_ERROR_MESSAGE, raw, NoResult)

\* the response text does not decode: GeminiParseError (geminiService.ts:543-554)
ClassifierRespondsUndecodable ==
    \E raw \in UndecodableTexts :
        ReconcileThrows("undecodable", PARSE_ERROR_MESSAGE, raw, reconciliationResult)

\* the classification call itself fails (generateContent rejects)
ClassifierFails ==
    ReconcileThrows("failed", API_ERROR_MESSAGE, NoError, reconciliationResult)

\* the fetchSystemData calls in flight once the selection has changed: their
\* responses are still to come, for a selection that is no longer the current one
Superseded(requests) == [i \in DOMAIN requests |-> [requests[i] EXCEPT !.current = FALSE]]

LedgerRequest(supplier, window) == [supplier |-> supplier, window |-> window, current |-> TRUE]

\* the loadSystemData effect (lines 874-890) up to its await, run after a
\* handler has set selectedSupplierId or systemFilter (a new filter object each
\* time, so the effect runs even when the dates are the same).  messageSet,
\* rawSet and resultSet are what the handler itself left in error, rawErrorData
\* and reconciliationResult.  The access token is present: the user is signed in
LoadSystemData(supplier, window, messageSet, rawSet, resultSet) ==
    IF supplier # NoSupplier /\ window.start # 0 /\ window.end # 0
    THEN /\ isLoadingSystemData' = TRUE
         /\ error' = NoError
         /\ rawErrorData' = NoError
         /\ reconciliationResult' = NoResult
         /\ ledgerRequests' = Superseded(ledgerRequests) \o <<LedgerRequest(supplier, window)>>
         /\ ledgerFetch' = "pending"
         /\ UNCHANGED systemData
    ELSE /\ systemData' = <<>>
         /\ error' = messageSet
         /\ rawErrorData' = rawSet
         /\ reconciliationResult' = resultSet
         /\ ledgerRequests' = Superseded(ledgerRequests)
         /\ ledgerFetch' = "none"
         /\ UNCHANGED isLoadingSystemData

\* handleClear, lines 971-980.  supplierDateRange is outside the model;
\* setSystemFilter({null, null}) re-runs the loadSystemData effect, whose else
\* branch empties systemData (lines 876-887)
HandleClear ==
    /\ extractedData' = <<>>
    /\ uploadedFiles' = <<>>
    /\ processedFiles' = <<>>
    /\ reconciliationTime' = FALSE
    /\ systemFilter' = NoWindow
    /\ LoadSystemData(selectedSupplierId, NoWindow, NoError, NoError, NoResult)
    /\ UNCHANGED <<existingMappings, isReconciling, isErrorModalOpen, skuMappingsToShow,
                   isSkuMappingModalOpen, run, classifyCalls, rjVars, saveVars, reading, uploads,
                   selectedSupplierId, selections>>

\* "start over" of the result view, shown whenever a result is published and
\* never disabled (ReconciliationResultDisplay, DataTable.tsx:200-205)
StartOver ==
    /\ Mounted
    /\ reconciliationResult # NoResult
    /\ HandleClear

\* isLoading.readingFile: true from the call of handleReadFile to its end
isReadingFile == reading.phase = "reading"

\* the clear button of the supplier panel (AppHeader.tsx:157)
ClearPanel ==
    /\ Mounted
    /\ reconciliationResult = NoResult
    /\ ~isReconciling
    /\ ~isReadingFile
    /\ Len(extractedData) # 0 \/ Len(uploadedFiles) # 0 \/ Len(processedFiles) # 0
    /\ HandleClear

\* the error alert is rendered only in the branch without a result (lines 1104-1127)
ErrorAlertRendered == Mounted /\ reconciliationResult = NoResult /\ error # NoError

\* the alert's "view details" button, rendered when hasRawData
ViewDetails ==
    /\ ErrorAlertRendered
    /\ rawErrorData # NoError
    /\ ~isErrorModalOpen
    /\ isErrorModalOpen' = TRUE
    /\ UNCHANGED <<extractedData, systemData, existingMappings, reconciliationResult,
                   reconciliationTime, isReconciling, error, rawErrorData,
                   skuMappingsToShow, isSkuMappingModalOpen, run, classifyCalls, rjVars, ioVars>>

\* ErrorModal shows rawErrorData when open and there is raw data (SystemDataPanel.tsx:97-98)
ErrorModalRendered == Mounted /\ isErrorModalOpen /\ rawErrorData # NoError

CloseErrorModal ==
    /\ ErrorModalRendered
    /\ isErrorModalOpen' = FALSE
    /\ UNCHANGED <<extractedData, systemData, existingMappings, reconciliationResult,
                   reconciliationTime, isReconciling, error, rawErrorData,
                   skuMappingsToShow, isSkuMappingModalOpen, run, classifyCalls, rjVars, ioVars>>

Next ==
    \/ HandleReconcile
    \/ ClassifierResponds
    \/ ClassifierRespondsIncomplete
    \/ ClassifierRespondsUndecodable
    \/ ClassifierFails
    \/ StartOver
    \/ ClearPanel
    \/ ViewDetails
    \/ CloseErrorModal

Spec == Init /\ [][Next]_vars

----------------------------------------------------------------------------
(* SpecRepair: repairJson applied to one response text.  A text is a       *)
(* sequence of characters; indices are the code's (0-based, -1 = absent).  *)

MaxStringAtoms == 2

WhiteSpace == {" ", "\t", "\n", "\r"}

charAt(s, i) == s[i + 1]

\* String.prototype.substring(a, b) for 0 <= a <= b <= length
substring(s, a, b) == SubSeq(s, a + 1, b)

\* String.prototype.trim
trim(s) ==
    LET solid == {i \in DOMAIN s : s[i] \notin WhiteSpace}
    IN  IF solid = {} THEN <<>>
        ELSE SubSeq(s, CHOOSE i \in solid : \A j \in solid : i <= j,
                       CHOOSE i \in solid : \A j \in solid : i >= j)

startsWithAt(s, pat, i) ==
    /\ i + Len(pat) <= Len(s)
    /\ \A k \in 1..Len(pat) : s[i + k] = pat[k]

\* the 0-based positions of pat in s that are >= from
Occurrences(s, pat, from) == {i \in from..(Len(s) - Len(pat)) : startsWithAt(s, pat, i)}

\* String.prototype.indexOf
indexOf(s, pat) ==
    LET occ == Occurrences(s, pat, 0)
    IN  IF occ = {} THEN -1 ELSE CHOOSE i \in occ : \A j \in occ : i <= j

\* a search that finds nothing
neverFound(s, pat) == -1

\* String.prototype.lastIndexOf
lastIndexOf(s, pat) ==
    LET occ == Occurrences(s, pat, 0)
    IN  IF occ = {} THEN -1 ELSE CHOOSE i \in occ : \A j \in occ : i >= j

\* the first position >= i that holds no white space
RECURSIVE SkipSpaces(_, _)
SkipSpaces(s, i) ==
    IF i < Len(s) /\ charAt(s, i) \in WhiteSpace THEN SkipSpaces(s, i + 1) ELSE i

\* the first position >= i that ends a run of white space before position k
RECURSIVE SpaceRunStart(_, _, _)
SpaceRunStart(s, i, k) ==
    IF k > i /\ charAt(s, k - 1) \in WhiteSpace THEN SpaceRunStart(s, i, k - 1) ELSE k

\* the character U+0060, which a string literal here cannot hold; characters
\* are only ever compared, so a token of its own stands for it
BACKTICK == "U+0060"

FENCE_OPEN == <<BACKTICK, BACKTICK, BACKTICK, "j", "s", "o", "n">>
FENCE_CLOSE == <<BACKTICK, BACKTICK, BACKTICK>>

\* match[1] of the jsonBlockRegex (FENCE_OPEN \s* ([\s\S]*?) \s* FENCE_CLOSE) on
\* s, NoText when there is no match: the leftmost FENCE_OPEN, its white space,
\* then the shortest text that white space and FENCE_CLOSE follow
jsonBlockMatch(s) ==
    LET open == indexOf(s, FENCE_OPEN)
        from == SkipSpaces(s, open + Len(FENCE_OPEN))
        closes == Occurrences(s, FENCE_CLOSE, from)
        close == CHOOSE i \in closes : \A j \in closes : i <= j
    IN  IF open = -1 \/ closes = {} THEN NoText
        ELSE substring(s, from, SpaceRunStart(s, from, close))

\* step 1, lines 321-326: (match && match[1]) is false for an empty group
extractFenced(repaired) ==
    LET match == jsonBlockMatch(repaired)
    IN  IF match # NoText /\ match # <<>> THEN trim(match) ELSE repaired

\* step 2, lines 328-337
findStartIndex(repaired) ==
    LET firstBrace == indexOf(repaired, <<"{">>)
        firstBracket == indexOf(repaired, <<"[">>)
    IN  IF firstBracket # -1 /\ (firstBracket < firstBrace \/ firstBrace = -1)
        THEN firstBracket
        ELSE IF firstBrace # -1 THEN firstBrace ELSE -1

\* a scan that counts the openers and closers inside strings as well
RECURSIVE scanEndIndexBlind(_, _, _, _, _, _, _)
scanEndIndexBlind(s, i, depth, inString, escape, startChar, endChar) ==
    IF i >= Len(s) THEN -1
    ELSE LET depth2 == IF charAt(s, i) = startChar THEN depth + 1
                       ELSE IF charAt(s, i) = endChar THEN depth - 1
                       ELSE depth
         IN  IF depth2 = 0 THEN i
             ELSE scanEndIndexBlind(s, i + 1, depth2, FALSE, FALSE, startChar, endChar)

\* step 3, the loop of lines 354-380 from position i on: endIndex, or -1
RECURSIVE scanEndIndex(_, _, _, _, _, _, _)
scanEndIndex(s, i, depth, inString, escape, startChar, endChar) ==
    IF i >= Len(s) THEN -1
    ELSE LET char == charAt(s, i)
         IN  IF inString
             THEN IF escape THEN scanEndIndex(s, i + 1, depth, TRUE, FALSE, startChar, endChar)
                  ELSE IF char = "\\"
                       THEN scanEndIndex(s, i + 1, depth, TRUE, TRUE, startChar, endChar)
                       ELSE scanEndIndex(s, i + 1, depth, char # "\"", FALSE, startChar, endChar)
             ELSE LET depth2 == IF char = "\"" THEN depth
                                ELSE IF char = startChar THEN depth + 1
                                ELSE IF char = endChar THEN depth - 1
                                ELSE depth
                  IN  IF depth2 = 0 THEN i
                      ELSE scanEndIndex(s, i + 1, depth2, char = "\"", FALSE, startChar, endChar)

\* lines 382-394
extractStructure(repaired, startIndex) ==
    LET startChar == charAt(repaired, startIndex)
        endChar == IF startChar = "{" THEN "}" ELSE "]"
        endIndex == scanEndIndex(repaired, startIndex, 0, FALSE, FALSE, startChar, endChar)
        lastBracketOrBrace == lastIndexOf(repaired, <<endChar>>)
    IN  IF endIndex # -1 THEN substring(repaired, startIndex, endIndex + 1)
        ELSE IF lastBracketOrBrace > startIndex
             THEN substring(repaired, startIndex, lastBracketOrBrace + 1)
             ELSE substring(repaired, startIndex, Len(repaired))

\* a pass that leaves the text alone
keepCommas(s, i) == substring(s, i, Len(s))

\* step 4, line 397: replace(/,\s*([}\]])/g, '$1') from position i on
RECURSIVE stripTrailingCommas(_, _)
stripTrailingCommas(s, i) ==
    IF i >= Len(s) THEN <<>>
    ELSE LET after == SkipSpaces(s, i + 1)
         IN  IF charAt(s, i) = "," /\ after < Len(s) /\ charAt(s, after) \in {"}", "]"}
             THEN <<charAt(s, after)>> \o stripTrailingCommas(s, after + 1)
             ELSE <<charAt(s, i)>> \o stripTrailingCommas(s, i + 1)

repairJson(jsonString) ==
    LET repaired == extractFenced(trim(jsonString))
        startIndex == findStartIndex(repaired)
    IN  IF startIndex = -1 THEN repaired
        ELSE stripTrailingCommas(extractStructure(repaired, startIndex), 0)

\* `repaired` when step 3 is done (line 394); NoText when repairJson returned
\* before it (line 341)
extractedText(jsonString) ==
    LET repaired == extractFenced(trim(jsonString))
        startIndex == findStartIndex(repaired)
    IN  IF startIndex = -1 THEN NoText ELSE extractStructure(repaired, startIndex)

\* JSON.parse, as far as accepting or rejecting goes, for texts made of
\* strings, arrays, objects and unsigned integers without leading zero (the
\* literals and the other number forms do not occur in the texts).  Each parser takes the
\* position of the first character and returns the position after the value,
\* or -1 when there is no value there.
Digits == {"0", "1", "2", "3", "4", "5", "6", "7", "8", "9"}
Escapable == {"\"", "\\", "/", "b", "f", "n", "r", "t"}

RECURSIVE parseStringTail(_, _)
parseStringTail(s, i) ==
    IF i >= Len(s) THEN -1
    ELSE IF charAt(s, i) = "\"" THEN i + 1
    ELSE IF charAt(s, i) = "\\"
         THEN IF i + 1 < Len(s) /\ charAt(s, i + 1) \in Escapable
              THEN parseStringTail(s, i + 2) ELSE -1
    ELSE IF charAt(s, i) \in {"\t", "\n", "\r"} THEN -1
    ELSE parseStringTail(s, i + 1)

parseString(s, i) ==
    IF i < Len(s) /\ charAt(s, i) = "\"" THEN parseStringTail(s, i + 1) ELSE -1

RECURSIVE parseDigits(_, _)
parseDigits(s, i) ==
    IF i < Len(s) /\ charAt(s, i) \in Digits THEN parseDigits(s, i + 1) ELSE i

RECURSIVE parseValue(_, _)
RECURSIVE parseElements(_, _)
RECURSIVE parseMembers(_, _)

\* the elements of an array from position i on, up to and including "]"
parseElements(s, i) ==
    LET after == parseValue(s, SkipSpaces(s, i))
        next == SkipSpaces(s, after)
    IN  IF after = -1 \/ next >= Len(s) THEN -1
        ELSE IF charAt(s, next) = "]" THEN next + 1
        ELSE IF charAt(s, next) = "," THEN parseElements(s, next + 1)
        ELSE -1

\* the members of an object from position i on, up to and including "}"
parseMembers(s, i) ==
    LET key == parseString(s, SkipSpaces(s, i))
        colon == SkipSpaces(s, key)
        after == IF key = -1 \/ colon >= Len(s) \/ charAt(s, colon) # ":" THEN -1
                 ELSE parseValue(s, SkipSpaces(s, colon + 1))
        next == SkipSpaces(s, after)
    IN  IF after = -1 \/ next >= Len(s) THEN -1
        ELSE IF charAt(s, next) = "}" THEN next + 1
        ELSE IF charAt(s, next) = "," THEN parseMembers(s, next + 1)
        ELSE -1

parseValue(s, i) ==
    IF i < 0 \/ i >= Len(s) THEN -1
    ELSE LET c == charAt(s, i)
             inner == SkipSpaces(s, i + 1)
         IN  IF c = "\"" THEN parseString(s, i)
             ELSE IF c \in Digits THEN parseDigits(s, i)
             ELSE IF c = "[" THEN
                      IF inner < Len(s) /\ charAt(s, inner) = "]" THEN inner + 1
                      ELSE parseElements(s, i + 1)
             ELSE IF c = "{" THEN
                      IF inner < Len(s) /\ charAt(s, inner) = "}" THEN inner + 1
                      ELSE parseMembers(s, i + 1)
             ELSE -1

\* JSON.parse(text) returns a value (TRUE) or throws a SyntaxError (FALSE)
JSONParseAccepts(text) ==
    LET end == parseValue(text, SkipSpaces(text, 0))
    IN  end # -1 /\ SkipSpaces(text, end) = Len(text)

\* what a string value may be made of: plain characters, the structural ones,
\* the two escapes, and a fenced block
StringAtoms ==
    { <<"a">>, <<",">>, <<"}">>, <<"]">>, <<"{">>, <<" ">>, <<"\\", "\"">>, <<"\\", "\\">>,
      FENCE_OPEN \o <<"[", "1", "]">> \o FENCE_CLOSE }

RECURSIVE Concat(_)
Concat(parts) == IF parts = <<>> THEN <<>> ELSE Head(parts) \o Concat(Tail(parts))

StringContents == { Concat(parts) : parts \in SeqsUpTo(StringAtoms, MaxStringAtoms) }

Quoted(content) == <<"\"">> \o content \o <<"\"">>

\* well-formed objects and arrays around one string value, as JSON.stringify
\* writes them: {"k":S}  [S]  {"k":[S]}  [{"k":S}]
ValidPayloadsOf(content) ==
    LET S == Quoted(content)
        K == <<"\"", "k", "\"", ":">>
    IN  { <<"{">> \o K \o S \o <<"}">>,
          <<"[">> \o S \o <<"]">>,
          <<"{">> \o K \o <<"[">> \o S \o <<"]", "}">>,
          <<"[", "{">> \o K \o S \o <<"}", "]">> }

ValidPayloads == UNION { ValidPayloadsOf(content) : content \in StringContents }

\* the forms of ValidPayloadsOf with c put before every closer: with c empty
\* the valid payload itself, with c a comma the payload with trailing commas
PayloadForm(form, content, c) ==
    LET S == Quoted(content)
        K == <<"\"", "k", "\"", ":">>
    IN  CASE form = 1 -> <<"{">> \o K \o S \o c \o <<"}">>
          [] form = 2 -> <<"[">> \o S \o c \o <<"]">>
          [] form = 3 -> <<"{">> \o K \o <<"[">> \o S \o c \o <<"]">> \o c \o <<"}">>
          [] form = 4 -> <<"[", "{">> \o K \o S \o c \o <<"}">> \o c \o <<"]">>

PayloadForms == 1..4

\* a response text by its parts: text = lead \o body \o trail, and what the
\* body was made from
ResponseParts(kind, lead, body, trail, clean) ==
    [kind |-> kind, lead |-> lead, body |-> body, trail |-> trail, clean |-> clean]

\* prose before the payload, and text after it: further closers, a quote
Leads == { <<>>, <<"o", "k", ":", " ">> }
Trails == { <<>>, <<"}">>, <<"]", "}">>, <<" ", "\"", "}", "\n">> }

\* a valid payload, alone or inside other text
EmbeddedResponses ==
    { ResponseParts("embedded", lead, payload, trail, payload)
      : lead \in Leads, payload \in ValidPayloads, trail \in Trails }

\* the ways a trailing comma is written
TrailingCommas == { <<",">>, <<",", " ">> }

\* a fenced block whose content is a payload with trailing commas
FencedResponses ==
    { ResponseParts("fenced", FENCE_OPEN \o <<"\n">>, PayloadForm(form, content, c),
                    <<"\n">> \o FENCE_CLOSE, PayloadForm(form, content, <<>>))
      : form \in PayloadForms, content \in StringContents, c \in TrailingCommas }

\* the string values of the payloads that get cut off: at most one atom, or
\* two closers
TruncatedContents == StringAtoms \cup { <<>>, <<"}", "}">>, <<"]", "]">> }

\* a payload that was cut off: every proper prefix of a payload
TruncatedResponses ==
    UNION { { ResponseParts("truncated", <<>>, SubSeq(payload, 1, n), <<>>, payload)
              : n \in 1..(Len(payload) - 1) }
            : payload \in UNION { ValidPayloadsOf(content) : content \in TruncatedContents } }

Responses == EmbeddedResponses \cup FencedResponses \cup TruncatedResponses

\* reconcileData has received response.text (geminiService.ts:537-538)
InitRepair ==
    /\ extractedData = <<>>
    /\ systemData = <<>>
    /\ existingMappings = <<>>
    /\ AppDefaults
    /\ IoIdle
    /\ rjParts \in Responses
    /\ rjInput = rjParts.lead \o rjParts.body \o rjParts.trail
    /\ rjOutput = NoText
    /\ rjExtracted = NoText
    /\ rjDecode = NotDecoded

\* repairedJson = repairJson(rawResponseText), geminiService.ts:540
ApplyRepair ==
    /\ rjOutput = NoText
    /\ rjOutput' = repairJson(rjInput)
    /\ rjExtracted' = extractedText(rjInput)
    /\ UNCHANGED <<rjInput, rjParts, rjDecode, appVars, ioVars>>

DECODED == [aiResult |-> TRUE]

\* new GeminiParseError(message, rawResponseText, repairedJson), lines 549-553
GeminiParseError(message, rawResponse, repairedAttempt) ==
    [message |-> message, rawResponse |-> rawResponse, repairedAttempt |-> repairedAttempt]

\* JSON.parse(repairedJson) returns, and reconcileData returns the value (541-542)
DecodeReturns ==
    /\ rjOutput # NoText
    /\ rjDecode = NotDecoded
    /\ JSONParseAccepts(rjOutput)
    /\ rjDecode' = DECODED
    /\ UNCHANGED <<rjInput, rjOutput, rjParts, rjExtracted, appVars, ioVars>>

\* JSON.parse(repairedJson) throws, and the catch block throws GeminiParseError
DecodeThrows ==
    /\ rjOutput # NoText
    /\ rjDecode = NotDecoded
    /\ ~JSONParseAccepts(rjOutput)
    /\ rjDecode' = GeminiParseError(PARSE_ERROR_MESSAGE, rjInput, rjOutput)
    /\ UNCHANGED <<rjInput, rjOutput, rjParts, rjExtracted, appVars, ioVars>>

NextRepair ==
    \/ ApplyRepair
    \/ DecodeReturns
    \/ DecodeThrows

SpecRepair == InitRepair /\ [][NextRepair]_vars

----------------------------------------------------------------------------
(* SpecLoad: how the two inputs get in.  Files are chosen, removed and     *)
(* read in batches (handleReadFile); the supplier and the ledger window    *)
(* change; the loadSystemData effect fetches the ledger; a reconciliation  *)
(* starts and everything is cleared.  The mapping table is empty, so the   *)
(* loadMappings effect of a supplier change leaves existingMappings as it  *)
(* is.                                                                     *)

MaxUploads == 2
MaxSelections == 2

\* startDate = maxDate - 10 days, endDate = maxDate + 10 days
WINDOW_DAYS == 10

FILE_1 == "f1"
FILE_2 == "f2"
FileUniverse == { FILE_1, FILE_2 }

\* a document with its date field, a day number
Dated(record, day) ==
    [f \in DOMAIN record \cup {"date"} |-> IF f = "date" THEN day ELSE record[f]]

\* what the extraction of a file yields when it succeeds
ExtractedFrom(file) ==
    IF file = FILE_1
    THEN <<Dated(RecordWithItems(<<ProductItem(<<"A">>, 100000, 500000, 500000)>>), 20)>>
    ELSE <<Dated(RecordWithoutItems(<<"B">>, 500000), 40)>>

EXTRACT_ERROR_MESSAGE == "api error"
EXTRACT_PARSE_ERROR_MESSAGE == "AI da tra ve mot dinh dang khong hop le"
EXTRACT_RAW_RESPONSE == <<"{">>

Fulfilled(value) == [status |-> "fulfilled", value |-> value]
Rejected(message, rawResponse) ==
    [status |-> "rejected", message |-> message, rawResponse |-> rawResponse]
PendingResult == [status |-> "pending"]

\* extractDataFromFile, geminiService.ts:403-456: the records, an error of the
\* API call, or a GeminiParseError that carries the raw response
ExtractionOutcomes(file) ==
    { Fulfilled(ExtractedFrom(file)),
      Rejected(EXTRACT_ERROR_MESSAGE, NoError),
      Rejected(EXTRACT_PARSE_ERROR_MESSAGE, EXTRACT_RAW_RESPONSE) }

\* the dates of the documents that have one
calculateValidDates(data) ==
    LET dated == SelectSeq(data, LAMBDA d : "date" \in DOMAIN d)
    IN  [i \in DOMAIN dated |-> dated[i].date]

MaxOf(days) == CHOOSE m \in { days[i] : i \in DOMAIN days } :
                   \A i \in DOMAIN days : days[i] <= m

\* the ledger window around the latest date, NoWindow when there is no date
calculateDateRange(validDates) ==
    IF Len(validDates) = 0 THEN NoWindow
    ELSE Window(MaxOf(validDates) - WINDOW_DAYS, MaxOf(validDates) + WINDOW_DAYS)

\* the windows the user picks in the filter of the ledger panel
FilterUniverse == { Window(10, 30), Window(30, 50) }

\* the ledger rows of a supplier in a window, as fetchSystemData maps them:
\* every (supplier, window) has rows of its own
LedgerOf(supplier, window) ==
    <<SystemRecord(IF supplier = SUPPLIER_1 THEN <<"X">> ELSE <<"Y">>,
                   IF window.end <= 30 THEN 100000 ELSE 200000, 500000,
                   IF window.end <= 30 THEN 500000 ELSE 1000000)>>

LEDGER_ERROR_MESSAGE == <<"Loi tai du lieu he thong">>

\* the App right after it has loaded the suppliers: nothing selected, nothing read
InitLoad ==
    /\ extractedData = <<>>
    /\ systemData = <<>>
    /\ existingMappings = <<>>
    /\ AppDefaults
    /\ RepairIdle
    /\ SaveIdle
    /\ uploadedFiles = <<>>
    /\ processedFiles = <<>>
    /\ reading = NotReading
    /\ uploads = 0
    /\ selectedSupplierId = NoSupplier
    /\ systemFilter = NoWindow
    /\ isLoadingSystemData = FALSE
    /\ ledgerRequests = <<>>
    /\ ledgerFetch = "none"
    /\ selections = 0

\* the panels of the main view are rendered (lines 1104-1160)
MainViewRendered == Mounted /\ reconciliationResult = NoResult

\* handleFileChange, lines 907-913
HandleFileChange ==
    /\ MainViewRendered
    /\ uploads < MaxUploads
    /\ \E file \in FileUniverse : uploadedFiles' = Append(uploadedFiles, file)
    /\ uploads' = uploads + 1
    /\ reconciliationResult' = NoResult
    /\ error' = NoError
    /\ rawErrorData' = NoError
    /\ UNCHANGED <<extractedData, systemData, existingMappings, reconciliationTime,
                   isReconciling, isErrorModalOpen, skuMappingsToShow, isSkuMappingModalOpen,
                   run, classifyCalls, rjVars, saveVars, processedFiles, reading, ledgerVars>>

\* files.filter((_, i) => i !== index)
WithoutIndex(files, index) ==
    [i \in 1..(Len(files) - 1) |-> IF i < index THEN files[i] ELSE files[i + 1]]

\* onRemoveFile of the supplier panel, line 1147
RemoveFile ==
    /\ MainViewRendered
    /\ \E index \in DOMAIN uploadedFiles : uploadedFiles' = WithoutIndex(uploadedFiles, index)
    /\ UNCHANGED <<appVars, rjVars, saveVars, processedFiles, reading, uploads, ledgerVars>>

\* handleReadFile up to its await, lines 915-920: the closure keeps the
\* uploadedFiles and the extractedData of the render that made it
HandleReadFile ==
    /\ MainViewRendered
    /\ ~isReadingFile                       \* the button is enabled (AppHeader.tsx:154)
    /\ Len(uploadedFiles) # 0
    /\ reading' = [phase |-> "reading", uploadedFiles |-> uploadedFiles,
                   extractedData |-> extractedData,
                   results |-> [i \in DOMAIN uploadedFiles |-> PendingResult]]
    /\ error' = NoError
    /\ rawErrorData' = NoError
    /\ UNCHANGED <<extractedData, systemData, existingMappings, reconciliationResult,
                   reconciliationTime, isReconciling, isErrorModalOpen, skuMappingsToShow,
                   isSkuMappingModalOpen, run, classifyCalls, rjVars, saveVars,
                   uploadedFiles, processedFiles, uploads, ledgerVars>>

RECURSIVE successfulData(_)
\* the records of the fulfilled results, in the files' order (lines 925-928)
successfulData(results) ==
    IF results = <<>> THEN <<>>
    ELSE (IF Head(results).status = "fulfilled" THEN Head(results).value ELSE <<>>)
         \o successfulData(Tail(results))

\* the message about one rejected file, line 931
FileErrorMessage(file, reason) == <<"Tep ", file, ": ", reason.message>>

RECURSIVE errorMessages(_, _)
\* one message per rejected result, in the files' order (lines 929-931)
errorMessages(files, results) ==
    IF results = <<>> THEN <<>>
    ELSE (IF Head(results).status = "rejected"
          THEN <<FileErrorMessage(Head(files), Head(results))>> ELSE <<>>)
         \o errorMessages(Tail(files), Tail(results))

RECURSIVE JoinLines(_)
\* errorMessages.join('\n')
JoinLines(messages) ==
    IF Len(messages) = 1 THEN Head(messages)
    ELSE Head(messages) \o <<"\n">> \o JoinLines(Tail(messages))

\* the rawResponse of the first GeminiParseError, NoError when there is none
\* (lines 932-934)
firstRawError(results) ==
    LET parseErrors == SelectSeq(results, LAMBDA r : r.status = "rejected"
                                                     /\ r.rawResponse # NoError)
    IN  IF parseErrors = <<>> THEN NoError ELSE Head(parseErrors).rawResponse

\* combinedData, line 946
CombinedData(before, results) == before \o successfulData(results)

\* handleReadFile after Promise.allSettled, lines 921-968, and the
\* loadSystemData effect that setSystemFilter sets off
ReadBatchSettled(results) ==
    LET messages == errorMessages(reading.uploadedFiles, results)
        raw == firstRawError(results)
        messageSet == IF Len(messages) > 0 THEN JoinLines(messages) ELSE error
        rawSet == IF Len(messages) > 0 /\ raw # NoError THEN raw ELSE rawErrorData
        combinedData == CombinedData(reading.extractedData, results)
        dateRange == calculateDateRange(calculateValidDates(combinedData))
    IN  /\ reading' = [reading EXCEPT !.phase = "settled", !.results = results]
        /\ processedFiles' = processedFiles \o reading.uploadedFiles
        /\ uploadedFiles' = <<>>
        /\ IF Len(successfulData(results)) > 0
           THEN /\ extractedData' = combinedData
                /\ systemFilter' = dateRange
                /\ LoadSystemData(selectedSupplierId, dateRange, messageSet, rawSet,
                                  reconciliationResult)
           ELSE /\ error' = messageSet
                /\ rawErrorData' = rawSet
                /\ UNCHANGED <<extractedData, systemFilter, systemData, reconciliationResult,
                               isLoadingSystemData, ledgerRequests, ledgerFetch>>
        /\ UNCHANGED <<existingMappings, reconciliationTime, isReconciling, isErrorModalOpen,
                       skuMappingsToShow, isSkuMappingModalOpen, run, classifyCalls, rjVars,
                       saveVars, uploads, selectedSupplierId, selections>>

\* one extraction of the batch settles; the handler goes on once all have
ExtractionSettles(i, outcome) ==
    /\ isReadingFile
    /\ i \in DOMAIN reading.results
    /\ reading.results[i] = PendingResult
    /\ LET results == [reading.results EXCEPT ![i] = outcome]
       IN  IF \E j \in DOMAIN results : results[j] = PendingResult
           THEN /\ reading' = [reading EXCEPT !.results = results]
                /\ UNCHANGED <<appVars, rjVars, saveVars, uploadedFiles, processedFiles,
                               uploads, ledgerVars>>
           ELSE ReadBatchSettled(results)

ExtractionFulfils ==
    \E i \in 1..MaxUploads :
        /\ isReadingFile /\ i \in DOMAIN reading.results
        /\ ExtractionSettles(i, Fulfilled(ExtractedFrom(reading.uploadedFiles[i])))

ExtractionRejects ==
    \E i \in 1..MaxUploads :
        /\ isReadingFile /\ i \in DOMAIN reading.results
        /\ \E outcome \in ExtractionOutcomes(reading.uploadedFiles[i]) :
               outcome.status = "rejected" /\ ExtractionSettles(i, outcome)

\* the supplier selector of the header (AppHeader.tsx:59-70), disabled while
\* the ledger loads; choosing the selected supplier again changes nothing
SelectSupplier ==
    /\ MainViewRendered
    /\ ~isLoadingSystemData
    /\ selections < MaxSelections
    /\ \E supplier \in { SUPPLIER_1, SUPPLIER_2 } :
           /\ supplier # selectedSupplierId
           /\ selectedSupplierId' = supplier
           /\ LoadSystemData(supplier, systemFilter, error, rawErrorData, reconciliationResult)
    /\ selections' = selections + 1
    /\ UNCHANGED <<extractedData, existingMappings, reconciliationTime, isReconciling,
                   isErrorModalOpen, skuMappingsToShow, isSkuMappingModalOpen, run,
                   classifyCalls, rjVars, saveVars, readVars, systemFilter>>

\* handleFilter of the ledger panel (SystemDataPanel.tsx:24-28), with both
\* dates set and the panel enabled (lines 45-60)
ChangeFilter ==
    /\ MainViewRendered
    /\ selectedSupplierId # NoSupplier
    /\ ~isLoadingSystemData
    /\ selections < MaxSelections
    /\ \E window \in FilterUniverse :
           /\ systemFilter' = window
           /\ LoadSystemData(selectedSupplierId, window, error, rawErrorData,
                             reconciliationResult)
    /\ selections' = selections + 1
    /\ UNCHANGED <<extractedData, existingMappings, reconciliationTime, isReconciling,
                   isErrorModalOpen, skuMappingsToShow, isSkuMappingModalOpen, run,
                   classifyCalls, rjVars, saveVars, readVars, selectedSupplierId>>

\* a fetchSystemData call ends and the effect goes on after its await
\* (useSystemData.ts:41-73, App.tsx:881-884); the calls end in any order
LedgerRequestEnds(i, data, message, outcome) ==
    /\ systemData' = data
    /\ error' = message
    /\ isLoadingSystemData' = FALSE
    /\ ledgerRequests' = WithoutIndex(ledgerRequests, i)
    /\ ledgerFetch' = IF ledgerRequests[i].current THEN outcome ELSE ledgerFetch
    /\ UNCHANGED <<extractedData, existingMappings, reconciliationResult, reconciliationTime,
                   isReconciling, rawErrorData, isErrorModalOpen, skuMappingsToShow,
                   isSkuMappingModalOpen, run, classifyCalls, rjVars, saveVars, readVars,
                   selectedSupplierId, systemFilter, selections>>

\* the rows arrive: setSystemData(mappedData)
LedgerResponds ==
    \E i \in DOMAIN ledgerRequests :
        LedgerRequestEnds(i, LedgerOf(ledgerRequests[i].supplier, ledgerRequests[i].window),
                          error, "ok")

\* the request fails: the catch block empties systemData and the effect
\* reports the message
LedgerFails ==
    \E i \in DOMAIN ledgerRequests :
        LedgerRequestEnds(i, <<>>, LEDGER_ERROR_MESSAGE, "failed")

NextLoad ==
    \/ HandleFileChange
    \/ RemoveFile
    \/ HandleReadFile
    \/ ExtractionFulfils
    \/ ExtractionRejects
    \/ SelectSupplier
    \/ ChangeFilter
    \/ LedgerResponds
    \/ LedgerFails
    \/ HandleReconcile
    \/ ClassifierResponds
    \/ ClassifierFails
    \/ StartOver
    \/ ClearPanel

SpecLoad == InitLoad /\ [][NextLoad]_vars

----------------------------------------------------------------------------
(* Properties of the matchers (SpecMatch).                                 *)

IsPaired(row) == row.status \in {STATUS_MATCHED, STATUS_DISCREPANCY}

\* C3: within one pass of the preprocessor and within one pass of the
\* discoverer no system item is paired with more than one supplier item: the
\* system items of the Matched/Discrepancy rows are pairwise distinct
\* positions of the system list, and so are those of the discoverer's pairs.
NoDoubleConsumption ==
    LET rows == run.preProcessedItems
        allSystemItems == flattenSystemItems(systemData)
    IN  /\ \A i \in DOMAIN rows : IsPaired(rows[i]) =>
              /\ rows[i].systemRef \in DOMAIN allSystemItems
              /\ rows[i].systemItem = allSystemItems[rows[i].systemRef]
        /\ \A i, j \in DOMAIN rows :
              (i < j /\ IsPaired(rows[i]) /\ IsPaired(rows[j]))
                  => rows[i].systemRef # rows[j].systemRef
        /\ \A i \in DOMAIN skuMappingsToShow :
              /\ skuMappingsToShow[i].systemRef \in DOMAIN allSystemItems
              /\ skuMappingsToShow[i].systemItem = allSystemItems[skuMappingsToShow[i].systemRef]
        /\ \A i, j \in DOMAIN skuMappingsToShow :
              i < j => skuMappingsToShow[i].systemRef # skuMappingsToShow[j].systemRef

\* two supplier items competed for equally named ledger items in the preprocessor,
\* and two for ledger items of one fingerprint in the discoverer
NoDoubleConsumptionWitness ==
    /\ \E i, j \in DOMAIN run.preProcessedItems :
          /\ i < j
          /\ IsPaired(run.preProcessedItems[i]) /\ IsPaired(run.preProcessedItems[j])
          /\ run.preProcessedItems[i].systemItem.name = run.preProcessedItems[j].systemItem.name
    /\ \E i, j \in DOMAIN skuMappingsToShow :
          /\ i < j
          /\ FingerprintKey(skuMappingsToShow[i].systemItem)
                = FingerprintKey(skuMappingsToShow[j].systemItem)

\* the lookup has an entry for the item's lower-cased name
HasMappingEntry(mappings, item) ==
    \E m \in DOMAIN mappings :
        toLowerCase(mappings[m].crdfd_supplier_product_name) = toLowerCase(item.name)

ConsumedBefore(rows, k) == {rows[m].systemRef : m \in 1..(k - 1)} \ {0}

\* C10: each mapped supplier item, in original order, is paired with the
\* system item of lowest index whose name equals the mapped target name and
\* which no earlier supplier item of the pass consumed; a choice once made is
\* not revisited when further supplier items follow.
FirstUnconsumedTarget ==
    run.phase = "preprocessed" =>
        LET sup == flattenSupplierItems(extractedData)
            sys == flattenSystemItems(systemData)
            rows == run.preProcessedItems
        IN  /\ \A k \in DOMAIN rows :
                  LET target == mappingMapGet(existingMappings,
                                              toLowerCase(rows[k].supplierItem.name))
                      free == {j \in DOMAIN sys :
                                  sys[j].name = target /\ j \notin ConsumedBefore(rows, k)}
                  IN  /\ (free = {}) <=> (rows[k].systemRef = 0)
                      /\ free # {} =>
                            /\ rows[k].systemRef \in free
                            /\ \A j \in free : rows[k].systemRef <= j
            /\ \A n \in 0..Len(sup) :
                  LET part == preprocessItemsWithMappings(SubSeq(sup, 1, n), sys,
                                                          existingMappings).preProcessedItems
                  IN  /\ Len(part) <= Len(rows)
                      /\ part = SubSeq(rows, 1, Len(part))

\* an item was paired while a later equally named ledger item was free, and a
\* later supplier item took that later one
FirstUnconsumedTargetWitness ==
    /\ run.phase = "preprocessed"
    /\ \E k, m \in DOMAIN run.preProcessedItems :
          /\ k < m
          /\ run.preProcessedItems[k].systemRef # 0
          /\ run.preProcessedItems[m].systemRef > run.preProcessedItems[k].systemRef
          /\ run.preProcessedItems[k].systemItem.name = run.preProcessedItems[m].systemItem.name

\* C11: the row of a mapped supplier item is Matched exactly when a system
\* item was paired and both its quantity and its unitPrice equal the supplier
\* item's; Discrepancy exactly when one was paired and a value differs, with
\* details naming the quantity and price of both sides; SupplierOnly, with null
\* systemItem and the fixed detail, exactly when no unconsumed system item
\* bears the target name.
StatusOfMappedRow ==
    run.phase = "preprocessed" =>
        LET sys == flattenSystemItems(systemData)
            rows == run.preProcessedItems
        IN  \A k \in DOMAIN rows :
                LET row == rows[k]
                    target == mappingMapGet(existingMappings, toLowerCase(row.supplierItem.name))
                    free == {j \in DOMAIN sys :
                                sys[j].name = target /\ j \notin ConsumedBefore(rows, k)}
                    paired == row.systemRef # 0
                    same == /\ paired
                            /\ row.systemItem.quantity = row.supplierItem.quantity
                            /\ row.systemItem.unitPrice = row.supplierItem.unitPrice
                IN  /\ row.status \in {STATUS_MATCHED, STATUS_DISCREPANCY, STATUS_SUPPLIER_ONLY}
                    /\ paired => row.systemItem = sys[row.systemRef]
                    /\ (row.status = STATUS_MATCHED) <=> same
                    /\ (row.status = STATUS_DISCREPANCY) <=> (paired /\ ~same)
                    /\ row.status = STATUS_DISCREPANCY =>
                           row.details = <<"Chenh lech SL/DG. NCC/Wecare",
                                           row.supplierItem.quantity, row.supplierItem.unitPrice,
                                           row.systemItem.quantity, row.systemItem.unitPrice>>
                    /\ (row.status = STATUS_SUPPLIER_ONLY) <=> (free = {})
                    /\ row.status = STATUS_SUPPLIER_ONLY =>
                           (row.systemItem = NullItem /\ row.details = DETAIL_ABSENT)

\* a Discrepancy that rests on the unit price alone, next to a SupplierOnly row
\* whose target is in the ledger but was consumed
StatusOfMappedRowWitness ==
    /\ run.phase = "preprocessed"
    /\ \E k, m \in DOMAIN run.preProcessedItems :
          /\ k < m
          /\ run.preProcessedItems[k].status = STATUS_DISCREPANCY
          /\ run.preProcessedItems[k].systemItem.quantity
                = run.preProcessedItems[k].supplierItem.quantity
          /\ run.preProcessedItems[m].status = STATUS_SUPPLIER_ONLY
          /\ mappingMapGet(existingMappings,
                           toLowerCase(run.preProcessedItems[m].supplierItem.name))
                = run.preProcessedItems[k].systemItem.name

\* the elements of s at the positions in keep, from position i on, in order
RECURSIVE Restrict(_, _, _)
Restrict(s, keep, i) ==
    IF i > Len(s) THEN <<>>
    ELSE (IF i \in keep THEN <<s[i]>> ELSE <<>>) \o Restrict(s, keep, i + 1)

\* C12: the residual system list is the system items that no row of the pass
\* consumed, in original order; each system position is the systemItem of
\* exactly one Matched/Discrepancy row or stays in the residual, never both
\* and never neither.
ResidualSystemList ==
    run.phase = "preprocessed" =>
        LET sys == flattenSystemItems(systemData)
            rows == run.preProcessedItems
            RowsOn(j) == {k \in DOMAIN rows : IsPaired(rows[k]) /\ rows[k].systemRef = j}
            left == {j \in DOMAIN sys : RowsOn(j) = {}}
        IN  /\ run.itemsForAI_System = Restrict(sys, left, 1)
            /\ \A j \in DOMAIN sys : j \notin left => Cardinality(RowsOn(j)) = 1
            /\ Len(run.itemsForAI_System) + Cardinality(DOMAIN sys \ left) = Len(sys)

\* of two equal ledger items one was consumed and the other is the residual
ResidualSystemListWitness ==
    /\ run.phase = "preprocessed"
    /\ Len(run.itemsForAI_System) = 1
    /\ \E k \in DOMAIN run.preProcessedItems :
          /\ IsPaired(run.preProcessedItems[k])
          /\ run.preProcessedItems[k].systemItem = run.itemsForAI_System[1]

\* C13: when several stored mappings bear supplier names equal up to case,
\* the lookup holds the system name of the last of them in stored order, and
\* every supplier item of that name is looked for under that target.
LastMappingWins ==
    run.phase = "preprocessed" =>
        LET sys == flattenSystemItems(systemData)
            rows == run.preProcessedItems
        IN  \A k \in DOMAIN rows :
                LET same == {m \in DOMAIN existingMappings :
                                toLowerCase(existingMappings[m].crdfd_supplier_product_name)
                                    = toLowerCase(rows[k].supplierItem.name)}
                    last == CHOOSE m \in same : \A n \in same : n <= m
                    target == existingMappings[last].crdfd_product_name
                IN  /\ same # {}
                    /\ rows[k].systemRef # 0 => rows[k].systemItem.name = target
                    /\ rows[k].systemRef = 0 =>
                           \A j \in DOMAIN sys :
                               sys[j].name = target => j \in ConsumedBefore(rows, k)

\* two mappings of one name up to case with different targets, both targets in
\* the ledger, and the item went to the later mapping's target
LastMappingWinsWitness ==
    /\ run.phase = "preprocessed"
    /\ Len(existingMappings) = 2
    /\ toLowerCase(existingMappings[1].crdfd_supplier_product_name)
          = toLowerCase(existingMappings[2].crdfd_supplier_product_name)
    /\ existingMappings[1].crdfd_product_name # existingMappings[2].crdfd_product_name
    /\ \E j \in DOMAIN run.itemsForAI_System :
          run.itemsForAI_System[j].name = existingMappings[1].crdfd_product_name
    /\ \E k \in DOMAIN run.preProcessedItems :
          /\ run.preProcessedItems[k].systemRef # 0
          /\ run.preProcessedItems[k].systemItem.name = existingMappings[2].crdfd_product_name

RECURSIVE KeysOf(_)
\* the fingerprint keys of a list of items, by position
KeysOf(items) ==
    IF items = <<>> THEN <<>> ELSE <<FingerprintKey(Head(items))>> \o KeysOf(Tail(items))

\* the system positions the pairs of supplier items before position i consumed
TakenBefore(pairs, i) == {pairs[m].systemRef : m \in {n \in DOMAIN pairs : pairs[n].supplierRef < i}}

\* C14: the discoverer goes through the supplier items in original order and
\* pairs each with the first system item, in system-list order, of equal
\* fingerprint key that no earlier supplier item consumed; an item without such
\* a candidate yields no pair.  With no stored mappings the pairs are the
\* proposals, and a supplier item is proposed with a system item of equal
\* quantity and unit price whenever one is left.
GreedyByFingerprint ==
    LET sup == flattenSupplierItems(extractedData)
        sys == flattenSystemItems(systemData)
        pairs == GreedyMappings(sup, sys)
        supKey == KeysOf(sup)
        sysKey == KeysOf(sys)
        Free(i) == {j \in DOMAIN sys : sysKey[j] = supKey[i] /\ j \notin TakenBefore(pairs, i)}
        PairsOf(i) == {m \in DOMAIN pairs : pairs[m].supplierRef = i}
    IN  /\ \A m, n \in DOMAIN pairs : m < n => pairs[m].supplierRef < pairs[n].supplierRef
        /\ \A m \in DOMAIN pairs :
              /\ pairs[m].supplierRef \in DOMAIN sup
              /\ pairs[m].supplierItem = sup[pairs[m].supplierRef]
              /\ pairs[m].systemRef \in Free(pairs[m].supplierRef)
              /\ \A j \in Free(pairs[m].supplierRef) : pairs[m].systemRef <= j
              /\ pairs[m].systemItem = sys[pairs[m].systemRef]
        /\ \A i \in DOMAIN sup : (PairsOf(i) = {}) <=> (Free(i) = {})
        /\ (isSkuMappingModalOpen /\ existingMappings = <<>>) =>
              /\ skuMappingsToShow = pairs
              /\ \A i \in DOMAIN sup :
                    (\E j \in DOMAIN sys :
                        /\ sys[j].quantity = sup[i].quantity
                        /\ sys[j].unitPrice = sup[i].unitPrice
                        /\ j \notin TakenBefore(pairs, i))
                    => \E m \in DOMAIN skuMappingsToShow : skuMappingsToShow[m].supplierRef = i

\* without stored mappings, two supplier items of one fingerprint were
\* proposed, the second with a later ledger item because the first candidate
\* was consumed, and one pair agrees in its fingerprint only
GreedyByFingerprintWitness ==
    /\ isSkuMappingModalOpen
    /\ existingMappings = <<>>
    /\ \E k, m \in DOMAIN skuMappingsToShow :
          /\ k < m
          /\ FingerprintKey(skuMappingsToShow[k].supplierItem)
                = FingerprintKey(skuMappingsToShow[m].supplierItem)
          /\ skuMappingsToShow[k].systemRef < skuMappingsToShow[m].systemRef
          /\ skuMappingsToShow[m].supplierItem.quantity # skuMappingsToShow[m].systemItem.quantity

\* a stored mapping with exactly this system name and this supplier name
StoredExactly(mappings, pair) ==
    \E e \in DOMAIN mappings :
        /\ mappings[e].crdfd_product_name = pair.systemItem.name
        /\ mappings[e].crdfd_supplier_product_name = pair.supplierItem.name

\* C15: the discoverer's output holds no proposal for which a stored mapping
\* with the same system name and the same supplier name exists, and it holds
\* every greedy pair without such a stored mapping, in pairing order.
OnlyNewProposals ==
    LET pairs == GreedyMappings(flattenSupplierItems(extractedData),
                                flattenSystemItems(systemData))
        new == {m \in DOMAIN pairs : ~StoredExactly(existingMappings, pairs[m])}
        out == findSkuMappings(extractedData, systemData, existingMappings)
    IN  /\ out = Restrict(pairs, new, 1)
        /\ \A m \in DOMAIN out : ~StoredExactly(existingMappings, out[m])
        /\ isSkuMappingModalOpen => skuMappingsToShow = out

\* a greedy pair was withheld as stored, and a pair was proposed although a
\* mapping with the supplier name in another case is stored for its system name
OnlyNewProposalsWitness ==
    /\ isSkuMappingModalOpen
    /\ Len(skuMappingsToShow)
          < Len(GreedyMappings(flattenSupplierItems(extractedData),
                               flattenSystemItems(systemData)))
    /\ \E m \in DOMAIN skuMappingsToShow : \E e \in DOMAIN existingMappings :
          /\ existingMappings[e].crdfd_product_name = skuMappingsToShow[m].systemItem.name
          /\ existingMappings[e].crdfd_supplier_product_name
                # skuMappingsToShow[m].supplierItem.name
          /\ toLowerCase(existingMappings[e].crdfd_supplier_product_name)
                = toLowerCase(skuMappingsToShow[m].supplierItem.name)

----------------------------------------------------------------------------
(* Properties of the flattening (SpecFlatten).                             *)

\* the record's items are absent or empty
IsBare(record) == ~record.hasItems \/ record.items = <<>>

\* the number of line items a record stands for
WidthOf(record) == IF IsBare(record) THEN 1 ELSE Len(record.items)

\* the number of line items the records before position k stand for
OffsetOf(data, k) == SumSeq([j \in 1..(k - 1) |-> WidthOf(data[j])])

\* the list in which every bare record stands as one line item named by its
\* description, of quantity 1 and of unit and total price its amount, and
\* every other record as its items in order
ExpectedFlat(data) ==
    [p \in 1..OffsetOf(data, Len(data) + 1) |->
        LET k == CHOOSE k \in DOMAIN data : OffsetOf(data, k) < p /\ p <= OffsetOf(data, k + 1)
        IN  IF IsBare(data[k])
            THEN [name |-> data[k].description, quantity |-> 100000,
                  unitPrice |-> data[k].amount, totalPrice |-> data[k].amount]
            ELSE data[k].items[p - OffsetOf(data, k)]]

NearestTenThousandth(y) ==
    CHOOSE n \in {y \div 10, y \div 10 + 1} : 10 * n - 5 <= y /\ y < 10 * n + 5

\* a value rounded to 4 decimal places, in units of 10^-4
RoundedTo4(x) == IF x < 0 THEN 0 - NearestTenThousandth(0 - x) ELSE NearestTenThousandth(x)

\* quantity and unit price of the two items agree after rounding to 4 places
AgreeTo4(x, y) ==
    /\ RoundedTo4(x.quantity) = RoundedTo4(y.quantity)
    /\ RoundedTo4(x.unitPrice) = RoundedTo4(y.unitPrice)

WithKey(items, k) == Cardinality({i \in DOMAIN items : FingerprintKey(items[i]) = k})

\* the number of pairs whose supplier item has the fingerprint key k
PairsWithKey(pairs, k) ==
    Cardinality({m \in DOMAIN pairs : FingerprintKey(pairs[m].supplierItem) = k})

Min(a, b) == IF a <= b THEN a ELSE b

Reverse(s) == [i \in DOMAIN s |-> s[Len(s) + 1 - i]]

\* C30: before the stored-mapping filter, the greedy pass yields for every
\* fingerprint key k exactly min(supplier items with key k, system items with
\* key k) pairs, so no supplier item stays unpaired while an unconsumed
\* system item of its key exists; taking the supplier items in another order
\* changes which items are paired and not how many.
GreedyPairsPerKey ==
    LET sup == flattenSupplierItems(extractedData)
        sys == flattenSystemItems(systemData)
        pairs == GreedyMappings(sup, sys)
        back == GreedyMappings(Reverse(sup), sys)
        keys == {FingerprintKey(sup[i]) : i \in DOMAIN sup}
                   \cup {FingerprintKey(sys[j]) : j \in DOMAIN sys}
    IN  /\ \A k \in keys :
              /\ PairsWithKey(pairs, k) = Min(WithKey(sup, k), WithKey(sys, k))
              /\ PairsWithKey(back, k) = PairsWithKey(pairs, k)
        /\ \A m \in DOMAIN pairs :
              FingerprintKey(pairs[m].systemItem) = FingerprintKey(pairs[m].supplierItem)
        /\ Len(back) = Len(pairs)
        /\ (isSkuMappingModalOpen /\ existingMappings = <<>>) => skuMappingsToShow = pairs

\* without stored mappings the proposals are the greedy pairs; two supplier
\* items share a key that one ledger item has, one pair was made, and in the
\* reverse order the other supplier item is the one paired
GreedyPairsPerKeyWitness ==
    LET sup == flattenSupplierItems(extractedData)
        sys == flattenSystemItems(systemData)
    IN  /\ isSkuMappingModalOpen
        /\ existingMappings = <<>>
        /\ \E m \in DOMAIN skuMappingsToShow :
              LET k == FingerprintKey(skuMappingsToShow[m].supplierItem)
              IN  /\ WithKey(sup, k) = 2
                  /\ WithKey(sys, k) = 1
                  /\ PairsWithKey(skuMappingsToShow, k) = 1
                  /\ \E n \in DOMAIN GreedyMappings(Reverse(sup), sys) :
                        /\ GreedyMappings(Reverse(sup), sys)[n].systemItem
                              = skuMappingsToShow[m].systemItem
                        /\ GreedyMappings(Reverse(sup), sys)[n].supplierItem
                              # skuMappingsToShow[m].supplierItem

----------------------------------------------------------------------------
(* Properties of saving mappings (SpecSave).                               *)

\* the proposal's mapping was created in the table and is among the stored
\* mappings the App holds; it was not when the discoverer proposed the pair
PersistedAndReloaded(proposal) ==
    /\ \E e \in DOMAIN mappingStore : mappingStore[e] = createPayload(proposal)
    /\ \E e \in DOMAIN existingMappings : existingMappings[e] = createPayload(proposal)

\* C29: when the discoverer proposed the pair (X, Y), the mapping from X's
\* name to Y's name was persisted and the stored mappings were reloaded, a
\* preprocessor pass over the same two collections does not send X to the
\* residual: it emits X with status Matched, paired with a system item named
\* as Y.
PersistedProposalMatches ==
    [][(run.phase = "none" /\ run'.phase = "preprocessed") =>
          \A m \in DOMAIN skuMappingsToShow :
              LET proposal == skuMappingsToShow[m]
                  items == run'.allSupplierItems
                  row == Cardinality({i \in 1..proposal.supplierRef :
                                         HasMappingEntry(existingMappings, items[i])})
              IN  PersistedAndReloaded(proposal) =>
                      /\ row \in DOMAIN run'.preProcessedItems
                      /\ run'.preProcessedItems[row].supplierItem = proposal.supplierItem
                      /\ run'.preProcessedItems[row].status = STATUS_MATCHED
                      /\ run'.preProcessedItems[row].systemItem.name = proposal.systemItem.name
      ]_vars

\* the creates of the batch in progress that have no outcome yet
PendingCreates == {j \in DOMAIN saving.batch : saving.outcomes[j] = "pending"}

\* the creates of the batch that have succeeded once this step is taken: the
\* table grows in a step in which the one pending create succeeds
SucceededCreates ==
    {j \in DOMAIN saving.batch : saving.outcomes[j] = "ok"}
       \cup (IF saving.phase = "creating" /\ mappingStore' # mappingStore
             THEN PendingCreates ELSE {})

\* C22: saveMappings issues one create per proposal and declares the batch
\* complete only when every request has an outcome: the request that ends in
\* the step in which it returns is the last pending one; and when a create
\* failed, by an error response or by a transport failure, the result is a
\* failure that tells how many of the requests failed.
SaveCollectsAllOutcomes ==
    [][(saving.phase = "creating" /\ saving'.phase # "creating") =>
          /\ Len(saving.outcomes) = Len(saving.batch)
          /\ Cardinality(PendingCreates) = 1
          /\ ~saveReturned'.success =>
                /\ "failed" \in DOMAIN saveReturned'.error
                /\ saveReturned'.error.failed
                      = Len(saving.batch) - Cardinality(SucceededCreates)
      ]_vars

\* C28: when a save all returns, the pending list of the modal holds exactly
\* the proposals of the batch whose create did not succeed, in order, so
\* that a retry does not create a stored mapping a second time.
PendingAreTheUnsaved ==
    [][(isSaving /\ saving.kind = "all" /\ saving'.phase = "idle") =>
          currentMappings' = FilterByIndex(saving.batch, SucceededCreates, 1)
      ]_vars

----------------------------------------------------------------------------
(* Properties of a reconciliation run (Spec).                              *)

IsPrefix(p, s) == Len(p) <= Len(s) /\ SubSeq(s, 1, Len(p)) = p

RunFailed == run.phase \in {"undecodable", "failed"}

SupplierItemsOf(rows) == [i \in DOMAIN rows |-> rows[i].supplierItem]

\* C1: once the merge of a run is published, every original supplier item is
\* the supplierItem of exactly one row of the merged result (and no row is
\* about anything else), whatever payload the classifier answered with.
SupplierCoverage ==
    (run.phase = "done" /\ reconciliationResult # NoResult) =>
        LET covered == SupplierItemsOf(reconciliationResult.comparedItems)
        IN  \A it \in {covered[i] : i \in DOMAIN covered}
                      \cup {run.allSupplierItems[i] : i \in DOMAIN run.allSupplierItems} :
                Count(covered, it) = Count(run.allSupplierItems, it)

\* C2: every published result has difference = totalSupplierAmount -
\* totalSystemAmount, and in the merged result both totals are the ones
\* recomputed locally (the sum of all supplier items, the sum of the ledger
\* prices of the merged rows), whatever totals the classifier's payload carries.
DifferenceRecomputed ==
    reconciliationResult # NoResult =>
        /\ reconciliationResult.difference =
               reconciliationResult.totalSupplierAmount - reconciliationResult.totalSystemAmount
        /\ run.phase = "done" =>
               /\ reconciliationResult.totalSupplierAmount =
                      SumSeq([i \in DOMAIN run.allSupplierItems |->
                                 run.allSupplierItems[i].totalPrice])
               /\ reconciliationResult.totalSystemAmount =
                      SumSeq([i \in DOMAIN reconciliationResult.comparedItems |->
                                 IF reconciliationResult.comparedItems[i].systemItem = NullItem
                                 THEN 0
                                 ELSE reconciliationResult.comparedItems[i].systemItem.totalPrice])

\* a merged result whose payload carried totals that do not add up and differ
\* from the published ones
DifferenceRecomputedWitness ==
    /\ run.phase = "done"
    /\ reconciliationResult # NoResult
    /\ Len(run.aiResult.comparedItems) > 0
    /\ run.aiResult.difference # reconciliationResult.difference
    /\ run.aiResult.difference #
           run.aiResult.totalSupplierAmount - run.aiResult.totalSystemAmount

\* C5: the step that ends a run with an error leaves the published result as it
\* was, and that result starts with every row the preprocessor produced.
ResultSurvivesFailure ==
    [][(isReconciling /\ ~isReconciling' /\ error' # NoError) =>
           /\ reconciliationResult' = reconciliationResult
           /\ reconciliationResult' # NoResult =>
                  IsPrefix(run'.preProcessedItems, reconciliationResult'.comparedItems)]_vars

\* a run that failed to decode with preprocessor rows still on display
ResultSurvivesFailureWitness ==
    /\ run.phase = "undecodable"
    /\ error = PARSE_ERROR_MESSAGE
    /\ reconciliationResult # NoResult
    /\ Len(run.preProcessedItems) > 0
    /\ IsPrefix(run.preProcessedItems, reconciliationResult.comparedItems)

\* C6: while the error of a run that ended on an undecodable response is set,
\* its message is on display with the way to the raw text, or the raw text is
\* on display itself.
DecodeFailureInspectable ==
    (run.phase = "undecodable" /\ ~isReconciling /\ error # NoError) =>
        /\ ErrorAlertRendered
        /\ rawErrorData # NoError
        /\ (ErrorModalRendered \/ ENABLED ViewDetails)

DecodeFailureHidden ==
    /\ run.phase = "undecodable"
    /\ error # NoError
    /\ reconciliationResult # NoResult

\* from a hidden decode failure every step keeps it hidden or wipes the error
\* and the raw text
HiddenFailureStaysHidden ==
    [][DecodeFailureHidden =>
           (DecodeFailureHidden' \/ (error' = NoError /\ rawErrorData' = NoError))]_vars

\* C7: a run calls the classifier at most once, at the step that publishes the
\* interim result of the finished deterministic pass, and exactly when a
\* residual list is non-empty; a run that skips the call merges the zero-valued
\* sub-result with the fixed summary and no rows.
ClassifierOncePerRun ==
    /\ [](/\ classifyCalls <= 1
          /\ run.phase # "none" =>
                 (classifyCalls = 1 <=>
                     (Len(run.itemsForAI_Supplier) > 0 \/ Len(run.itemsForAI_System) > 0))
          /\ (run.phase = "done" /\ classifyCalls = 0) =>
                 /\ run.aiResult.summary = SUMMARY_NOTHING
                 /\ run.aiResult.totalSupplierAmount = 0
                 /\ run.aiResult.totalSystemAmount = 0
                 /\ run.aiResult.difference = 0
                 /\ run.aiResult.comparedItems = <<>>)
    /\ [][classifyCalls' # classifyCalls =>
              /\ classifyCalls' = classifyCalls + 1
              /\ run.phase = "none"
              /\ run'.phase = "awaiting"
              /\ Len(run'.preProcessedItems) + Len(run'.itemsForAI_Supplier)
                     = Len(run'.allSupplierItems)
              /\ reconciliationResult' # NoResult
              /\ reconciliationResult'.summary = SUMMARY_INTERIM
              /\ Len(reconciliationResult'.comparedItems) = Len(run'.allSupplierItems)
              /\ IsPrefix(run'.preProcessedItems, reconciliationResult'.comparedItems)]_vars

\* a finished run that delegated only because a ledger item was left over
ClassifierOncePerRunWitness ==
    /\ run.phase = "done"
    /\ classifyCalls = 1
    /\ Len(run.itemsForAI_Supplier) = 0
    /\ Len(run.itemsForAI_System) > 0
    /\ Len(run.preProcessedItems) > 0

\* C8: when a run cleared while its call was in flight comes to its end, the
\* call's outcome publishes nothing: reconciliationResult stays null.
AbandonedRunIgnored ==
    [][(isReconciling /\ reconciliationResult = NoResult /\ ~isReconciling') =>
           reconciliationResult' = NoResult]_vars

\* C16: the rows of the merged result are the preprocessor's rows followed by
\* the delegate's rows as given; its totalSupplierAmount is the sum of
\* totalPrice over all original supplier items, mapped or not; its
\* totalSystemAmount is the sum of systemItem.totalPrice over the merged rows,
\* a row with null systemItem counting zero.
MergeOrderAndTotals ==
    (run.phase = "done" /\ reconciliationResult # NoResult) =>
        LET rows == reconciliationResult.comparedItems
            WithSystem == {i \in DOMAIN rows : rows[i].systemItem # NullItem}
        IN  /\ rows = run.preProcessedItems \o run.aiResult.comparedItems
            /\ Len(run.allSupplierItems)
                   = Len(run.preProcessedItems) + Len(run.itemsForAI_Supplier)
            /\ reconciliationResult.totalSupplierAmount
                   = SumSeq([i \in DOMAIN run.allSupplierItems |->
                                run.allSupplierItems[i].totalPrice])
            /\ reconciliationResult.totalSystemAmount
                   = SumSeq([i \in DOMAIN rows |->
                                IF i \in WithSystem THEN rows[i].systemItem.totalPrice ELSE 0])

\* a merge of preprocessor rows with two different delegate rows, one of them
\* without system item, in a run that had mapped and unmapped supplier items
MergeOrderAndTotalsWitness ==
    /\ run.phase = "done"
    /\ reconciliationResult # NoResult
    /\ Len(run.preProcessedItems) > 0
    /\ Len(run.itemsForAI_Supplier) > 0
    /\ Len(run.aiResult.comparedItems) = 2
    /\ run.aiResult.comparedItems[1].systemItem = NullItem
    /\ run.aiResult.comparedItems[2].systemItem # NullItem
    /\ run.preProcessedItems[1] # run.aiResult.comparedItems[2]

\* the decoded payload lacks a field that the response schema requires
LacksRequiredField(aiResult) ==
    /\ aiResult # NoResult
    /\ ~({"summary", "totalSupplierAmount", "totalSystemAmount", "difference", "comparedItems"}
            \subseteq DOMAIN aiResult)

\* C17: the step on which a run receives a payload that decodes but lacks a
\* required field ends the run as an undecodable response does: the classifier
\* error is set together with the raw response text, and the published interim
\* result stays as it is (no merge).
IncompletePayloadRejected ==
    [][(run.phase = "awaiting" /\ LacksRequiredField(run'.aiResult)) =>
           /\ error' = PARSE_ERROR_MESSAGE
           /\ rawErrorData' # NoError
           /\ reconciliationResult' = reconciliationResult]_vars

\* C26: the interim result published before delegation lists every original
\* supplier item exactly once: the mapped items as their deterministic rows,
\* first, and every unmapped item as one Processing placeholder with null
\* systemItem, after them, both in supplier order.
InterimListsEveryItemOnce ==
    (run.phase = "awaiting" /\ reconciliationResult # NoResult) =>
        LET rows == reconciliationResult.comparedItems
            items == ExpectedFlat(extractedData)
            mapped == {i \in DOMAIN items : HasMappingEntry(existingMappings, items[i])}
            n == Cardinality(mapped)
        IN  /\ Len(rows) = Len(items)
            /\ \A it \in {items[i] : i \in DOMAIN items} :
                  Count(SupplierItemsOf(rows), it) = Count(items, it)
            /\ SupplierItemsOf(SubSeq(rows, 1, n)) = Restrict(items, mapped, 1)
            /\ SupplierItemsOf(SubSeq(rows, n + 1, Len(rows)))
                  = Restrict(items, DOMAIN items \ mapped, 1)
            /\ \A k \in 1..n :
                  /\ rows[k].status # STATUS_PROCESSING
                  /\ rows[k] = run.preProcessedItems[k]
            /\ \A k \in (n + 1)..Len(rows) :
                  /\ rows[k].status = STATUS_PROCESSING
                  /\ rows[k].systemItem = NullItem

\* an interim result with a deterministic row followed by a placeholder is shown
InterimListsEveryItemOnceWitness ==
    /\ run.phase = "awaiting"
    /\ reconciliationResult # NoResult
    /\ Len(reconciliationResult.comparedItems) = 2
    /\ reconciliationResult.comparedItems[1].status = STATUS_MATCHED
    /\ reconciliationResult.comparedItems[2].status = STATUS_PROCESSING

----------------------------------------------------------------------------
(* Properties of repairJson (SpecRepair).                                  *)

\* C4: repairJson returns an already valid, unfenced object or array as it
\* received it, whatever its string values contain.
ValidPayloadUnchanged ==
    (rjOutput # NoText /\ rjInput \in ValidPayloads) => rjOutput = rjInput

HasChar(text, c) == \E i \in DOMAIN text : text[i] = c

\* C18: when the first "{" or "[" of the working text opens a well-formed
\* object or array, the extracted substring is that object or array, from its
\* opener to its matching closer, whatever follows it (further closers
\* included) and whatever openers, closers and escaped quotes its strings hold.
BalancedExtraction ==
    (rjParts.kind = "embedded" /\ rjOutput # NoText /\ ~HasChar(rjInput, BACKTICK)) =>
        rjExtracted = rjParts.body

\* a payload after prose and before further closers, whose string holds an
\* escaped quote followed by a closer, came out whole
BalancedExtractionWitness ==
    /\ rjParts.kind = "embedded"
    /\ rjOutput # NoText
    /\ rjParts.lead # <<>>
    /\ HasChar(rjParts.trail, "}")
    /\ \E i \in DOMAIN rjParts.body :
          /\ i + 2 <= Len(rjParts.body)
          /\ rjParts.body[i] = "\\" /\ rjParts.body[i + 1] = "\"" /\ rjParts.body[i + 2] = "}"
    /\ rjExtracted = rjParts.body

\* the working text of a response without fence: the trimmed response
WorkingText(text) ==
    LET solid == {i \in DOMAIN text : text[i] \notin {" ", "\t", "\n", "\r"}}
    IN  SubSeq(text, CHOOSE i \in solid : \A j \in solid : i <= j,
                     CHOOSE i \in solid : \A j \in solid : i >= j)

\* C19: when the scan never returns to depth zero, the extracted text runs from
\* startIndex through the last occurrence of the expected closer if there is
\* one after startIndex, and to the end of the working text otherwise; the
\* outcome of the repair goes to the decoder once, and a decode failure is
\* reported as an error with the response and the attempt as they were, after
\* which nothing is retried or changed.
FallbackExtraction ==
    /\ []((rjParts.kind = "truncated" /\ rjOutput # NoText /\ ~HasChar(rjInput, BACKTICK)) =>
             LET working == WorkingText(rjInput)
                 closer == IF working[1] = "{" THEN "}" ELSE "]"
                 closers == {i \in DOMAIN working : i > 1 /\ working[i] = closer}
                 last == CHOOSE i \in closers : \A j \in closers : j <= i
             IN  /\ rjExtracted = IF closers # {} THEN SubSeq(working, 1, last) ELSE working
                 /\ rjDecode \notin {NotDecoded, DECODED} =>
                        /\ rjDecode.message = PARSE_ERROR_MESSAGE
                        /\ rjDecode.rawResponse = rjInput
                        /\ rjDecode.repairedAttempt = rjOutput)
    /\ [][rjDecode # NotDecoded => UNCHANGED rjVars]_vars

\* a cut-off payload with two closers after its opener was cut at the last of
\* them, and the decode failure was reported
FallbackExtractionWitness ==
    /\ rjParts.kind = "truncated"
    /\ ~HasChar(rjInput, BACKTICK)
    /\ Cardinality({i \in DOMAIN rjInput : i > 1 /\ rjInput[i] = "}"}) = 2
    /\ rjInput[1] = "{"
    /\ Len(rjExtracted) < Len(rjInput)
    /\ rjDecode \notin {NotDecoded, DECODED}

\* C20: for a fenced block whose content is a payload with trailing commas
\* before its closers, repairJson returns the content without the fence and
\* without those commas, no comma is left directly before a closer, and the
\* outcome decodes.
FencedCommasRemoved ==
    (rjParts.kind = "fenced" /\ rjOutput # NoText) =>
        /\ rjOutput = rjParts.clean
        /\ \A i \in DOMAIN rjOutput :
               (rjOutput[i] = "," /\ i < Len(rjOutput)) => rjOutput[i + 1] \notin {"}", "]"}
        /\ rjDecode # NotDecoded => rjDecode = DECODED

\* the same, for contents whose strings hold neither a comma nor a fence mark
FencedCommasRemovedPlainStrings ==
    (rjParts.kind = "fenced" /\ rjOutput # NoText /\ ~HasChar(rjParts.clean, ",")
        /\ ~HasChar(rjParts.clean, BACKTICK)) =>
        /\ rjOutput = rjParts.clean
        /\ rjDecode # NotDecoded => rjDecode = DECODED

----------------------------------------------------------------------------
(* Properties of loading the inputs (SpecLoad).                            *)

\* the step in which a batch of documents settles
BatchSettles == reading.phase = "reading" /\ reading'.phase = "settled"

\* C21: when a batch of documents has settled, extractedData is what it was
\* before followed by the records of every document that was extracted, and
\* if some document failed the error is one message per failed document,
\* naming it
ReadBatchKeepsEveryOutcome ==
    [][BatchSettles =>
          /\ extractedData' = extractedData \o successfulData(reading'.results)
          /\ (\E i \in DOMAIN reading'.results : reading'.results[i].status = "rejected")
                 => error' = JoinLines(errorMessages(reading'.uploadedFiles, reading'.results))
      ]_vars

\* a call of handleReconcile begins: it runs the deterministic matching and
\* publishes the interim or the final result
ReconcileStarts ==
    /\ run.phase # "awaiting"
    /\ run'.phase \in {"awaiting", "done"}
    /\ reconciliationResult' # NoResult

\* C23: while the ledger fetch for the selected supplier and window stands
\* failed, no reconciliation starts: nothing is matched and nothing published
LedgerFailureStopsReconcile ==
    [][ledgerFetch = "failed" => ~ReconcileStarts]_vars

\* C27: whenever no ledger fetch is in flight, systemData is empty or holds the
\* rows of the selected supplier in the selected window
LedgerIsOfCurrentSelection ==
    ledgerRequests = <<>> =>
        \/ systemData = <<>>
        \/ /\ selectedSupplierId # NoSupplier
           /\ systemFilter # NoWindow
           /\ systemData = LedgerOf(selectedSupplierId, systemFilter)

============================================================================
